---- MODULE Spec2Model ----
(***************************************************************************)
(* OAuth credential lifecycle of gistreach: the credential store           *)
(* (CredentialService), the platform auth providers (Facebook, X,          *)
(* LinkedIn), the OAuth state codec and the in-memory session store.       *)
(*                                                                         *)
(* Every asynchronous call is a process that moves from one await to the   *)
(* next; one action is one resumption: the database operation or the       *)
(* platform response it was waiting for, followed by the synchronous code  *)
(* up to the next await.                                                   *)
(***************************************************************************)
EXTENDS Integers, Sequences, FiniteSets, TLC

(***************************************************************************)
(* Bounds of the model.                                                    *)
(***************************************************************************)
\* The clock runs from 0 to MaxTime, in units of five minutes.
MaxTime == 3
\* Token responses the platform gives (each carries fresh token material).
MaxIssued == 3
\* Values crypto.randomBytes can return for a salt.
NumSalts == 2
\* Rows the socialAccount table can hold.
MaxRecords == 3
\* State tokens minted in one behaviour.
MaxMint == 1
\* Calls of OAuthSessionStore.set in one behaviour.
MaxSets == 2
\* Results of OAuthSessionStore.get recorded per key between two sets.
MaxGets == 2
\* UTF-16 code units in a string handed to encrypt.
MaxText == 2

(***************************************************************************)
(* Program constants, in units of five minutes.                            *)
(***************************************************************************)
\* OAuthStateManager.STATE_EXPIRY_MS = 10 * 60 * 1000.
STATE_EXPIRY_MS == 2
\* The default ttlMs of OAuthSessionStore.set = 10 * 60 * 1000.
DEFAULT_TTL_MS == 2
\* OAuthSessionStore.CLEANUP_INTERVAL = 5 * 60 * 1000.
CLEANUP_INTERVAL == 1
\* The lookahead of needsRefresh = 5 * 60 * 1000.
FIVE_MINUTES == 1

(***************************************************************************)
(* JavaScript values.  Strings that hold tokens are numbers: 0 is the      *)
(* empty string "", n > 0 is the token material of the platform's n-th     *)
(* response.  Undefined stands for undefined and for a database NULL.      *)
(***************************************************************************)
Undefined == -1
EmptyString == 0

\* JavaScript truthiness of a string-or-undefined value: x || y, if (x).
Truthy(x) == x # Undefined /\ x # EmptyString

\* a || b on string-or-undefined values.
OrElse(a, b) == IF Truthy(a) THEN a ELSE b

Procs == {"p1", "p2"}
Platforms == {"facebook", "x", "linkedin"}
Names == {"Ann", "Bob"}
\* undefined where a display name is expected.
NoName == "undefined"

(***************************************************************************)
(* src/lib/encryption.ts: a blob is salt, IV, auth tag and ciphertext.     *)
(* The key is derived from the salt, the ciphertext from text, key and IV, *)
(* the tag from all of them; decrypt recomputes the tag and fails on a     *)
(* mismatch.                                                               *)
(***************************************************************************)
Salts == 1..NumSalts
TextMod == MaxIssued + 2

deriveKey(salt) == (2 * salt + 1) % TextMod

AuthTag(key, salt, iv, ct) == (key + 2 * salt + 3 * iv + 5 * ct + 1) % 7

encrypt(text, salt, iv) ==
    LET key == deriveKey(salt)
        ct  == (text + key + iv) % TextMod
    IN  <<salt, iv, AuthTag(key, salt, iv, ct), ct>>

DecryptFailed == Undefined - 1

decrypt(blob) ==
    IF Len(blob) # 4 THEN DecryptFailed
    ELSE LET key == deriveKey(blob[1])
         IN  IF blob[3] # AuthTag(key, blob[1], blob[2], blob[4])
             THEN DecryptFailed
             ELSE (blob[4] + 2 * TextMod - key - blob[2]) % TextMod

\* cleanupTimer === null.
NoTimer == -1

\* A Map: a function on the keys it holds.
EmptyMap == [k \in {} |-> 0]

MapPut(m, k, v) == [x \in DOMAIN m \cup {k} |-> IF x = k THEN v ELSE m[x]]

MapDelete(m, k) == [x \in DOMAIN m \ {k} |-> m[x]]

\* A database NULL in a blob column.
NoBlob == <<>>

\* CredentialManager.encryptCredentials: the refresh token is encrypted only
\* when it is truthy.
encryptCredentials(accessToken, refreshToken, s1, s2) ==
    [encryptedAccessToken  |-> encrypt(accessToken, s1, s1),
     encryptedRefreshToken |-> IF Truthy(refreshToken)
                               THEN encrypt(refreshToken, s2, s2)
                               ELSE NoBlob]

(***************************************************************************)
(* State.                                                                  *)
(***************************************************************************)
VARIABLES
    now,        \* Date.now()
    db,         \* the socialAccount table: a sequence of rows, id = index
    pc,         \* pc[p]: the await process p is suspended at
    loc,        \* loc[p]: the local variables of p's call
    issued,     \* token responses the platform has given so far
    newestRT,   \* the newest refresh token the platform has issued
    store,      \* OAuthSessionStore.store: key -> [data, expiresAt]
    cleanupTimer, \* OAuthSessionStore.cleanupTimer: NoTimer or when it fires next
    minted,     \* the state tokens generateState has returned
    latest,     \* latest[k]: the data of the last set on key k
    served,     \* served[k]: what get returned for k since the last set on k
    credentialOperationLimits \* key -> [count, resetTime] of the rate limiter

\* The session store with its history, and the state codec.
sessVars == <<store, cleanupTimer, latest, served>>
authVars == <<minted, credentialOperationLimits>>

vars == <<now, db, pc, loc, issued, newestRT, store, cleanupTimer, minted,
          latest, served, credentialOperationLimits>>

\* SocialCredentials | null, as getCredentials returns it.
NullCreds ==
    [ok |-> FALSE, accessToken |-> Undefined, refreshToken |-> Undefined,
     expiresAt |-> Undefined]

\* Partial<SocialCredentials> with nothing supplied.
NoUpdates ==
    [accessToken |-> Undefined, refreshToken |-> Undefined,
     expiresAt |-> Undefined, displayName |-> NoName]

NoTriple == [workspaceId |-> "", platform |-> "", platformAccountId |-> ""]

\* A string that does not decrypt under the state secret.
NoState ==
    [sealed |-> FALSE, workspaceId |-> "", platform |-> "", accountType |-> "",
     timestamp |-> 0, nonce |-> 0]

LocIdle ==
    [op |-> "none", tag |-> "", provider |-> "", accountId |-> 0, creds |-> NullCreds,
     updates |-> NoUpdates, cur |-> NullCreds, triple |-> NoTriple,
     existing |-> 0, remote |-> "none", startedExpired |-> FALSE,
     readNull |-> FALSE, state |-> NoState, expiresIn |-> Undefined,
     status |-> Undefined, count |-> 0, secret |-> TRUE,
     args |-> [workspaceId |-> "", accountType |-> "", redirectUri |-> <<>>],
     url |-> [base |-> "", query |-> <<>>],
     input |-> [kind |-> "none", s |-> <<>>],
     blob |-> [salt |-> 0, iv |-> 0, tag |-> <<>>, ct |-> <<>>],
     tampered |-> FALSE,
     out |-> [kind |-> "none", s |-> <<>>],
     parsed |-> [data |-> NoState, isValid |-> FALSE, error |-> ""],
     message |-> "", given |-> <<>>, got |-> <<>>, result |-> "none"]

AccountIds == 1..MaxRecords

Exists(id) == id \in DOMAIN db

(***************************************************************************)
(* CredentialService.getCredentials, content.ts 740-783: null for a        *)
(* missing or inactive row and for a row whose expiry is before now.       *)
(***************************************************************************)
\* getCredentials without the test of the expiry (751-754).
getCredentialsIgnoringExpiry(id) ==
    IF ~Exists(id) THEN NullCreds
    ELSE IF ~db[id].isActive THEN NullCreds
    ELSE [ok |-> TRUE,
          accessToken  |-> decrypt(db[id].encryptedAccessToken),
          refreshToken |-> IF db[id].encryptedRefreshToken = NoBlob
                           THEN Undefined
                           ELSE decrypt(db[id].encryptedRefreshToken),
          expiresAt    |-> db[id].tokenExpiresAt]

getCredentials(id) ==
    IF ~Exists(id) THEN NullCreds
    ELSE IF ~db[id].isActive THEN NullCreds
    ELSE IF db[id].tokenExpiresAt # Undefined /\ db[id].tokenExpiresAt < now
    THEN NullCreds
    ELSE [ok |-> TRUE,
          accessToken  |-> decrypt(db[id].encryptedAccessToken),
          refreshToken |-> IF db[id].encryptedRefreshToken = NoBlob
                           THEN Undefined
                           ELSE decrypt(db[id].encryptedRefreshToken),
          expiresAt    |-> db[id].tokenExpiresAt]

Goto(p, newpc, newloc) ==
    /\ pc' = [pc EXCEPT ![p] = newpc]
    /\ loc' = [loc EXCEPT ![p] = newloc]

\* The call returns or throws: what stays is what the caller saw.
Finish(p, l, res) ==
    Goto(p, "done", [l EXCEPT !.creds = NullCreds, !.cur = NullCreds,
                              !.existing = 0, !.expiresIn = Undefined,
                              !.result = res])

(***************************************************************************)
(* The errors of the platform calls.  Every call is a fetch followed by    *)
(* `if (!response.ok) throw new Error(...statusText...)`, and the catch    *)
(* hands what was thrown to handleOAuthError (base-auth-provider.ts        *)
(* 208-236), which looks at error.response?.status.                        *)
(***************************************************************************)
\* The statuses of a response that is not OK.
HttpStatuses == {400, 401, 403, 429, 500}

\* new Error(message): the status is in the message at most, and there is no
\* response property.
ThrownError(status) == [response |-> Undefined, message |-> status]

\* The code of the TRPCError handleOAuthError throws.
handleOAuthError(error) ==
    IF error.response = 401 THEN "UNAUTHORIZED"
    ELSE IF error.response = 403 THEN "FORBIDDEN"
    ELSE IF error.response = 429 THEN "TOO_MANY_REQUESTS"
    ELSE "INTERNAL_SERVER_ERROR"

\* The platform has answered with a status that is not OK: the call ends
\* with what handleOAuthError throws.  The status is kept when record is set.
FailCall(p, status, record) ==
    Finish(p, [loc[p] EXCEPT !.remote = "notok",
                             !.status = IF record THEN status ELSE Undefined],
           handleOAuthError(ThrownError(status)))

\* Process p is free: it makes one call in a behaviour.
BeginCall(p) == pc[p] = "idle"


\* The ids a caller can address: the rows there are, and one that is missing.
CallIds == {id \in AccountIds : id <= Len(db) + 1}

\* The row is active, its expiry has passed and it holds a refresh token.
ExpiredWithRefreshToken(id) ==
    /\ Exists(id)
    /\ db[id].isActive
    /\ db[id].tokenExpiresAt # Undefined
    /\ db[id].tokenExpiresAt < now
    /\ db[id].encryptedRefreshToken # NoBlob

\* getCredentials called directly: the call returns null or the credentials,
\* or throws when a token does not decrypt (catch, 775-782).
CredsGet(p) ==
    /\ BeginCall(p)
    /\ \E id \in CallIds :
         LET c == getCredentials(id)
             l == [LocIdle EXCEPT !.op = "getCredentials", !.accountId = id]
         IN  IF c.ok /\ DecryptFailed \in {c.accessToken, c.refreshToken}
             THEN Goto(p, "done", [l EXCEPT !.result = "INTERNAL_SERVER_ERROR"])
             ELSE Goto(p, "done",
                       [l EXCEPT !.cur = c,
                                 !.result = IF c.ok THEN "ok" ELSE "null"])
    /\ UNCHANGED <<now, db, issued, newestRT>>
    /\ UNCHANGED <<sessVars, authVars>>

(***************************************************************************)
(* CredentialService.needsRefresh, content.ts 922-944.                     *)
(***************************************************************************)
\* needsRefresh with < where the code has <=.
needsRefreshStrict(id) ==
    IF ~Exists(id) \/ ~db[id].isActive THEN FALSE
    ELSE IF db[id].tokenExpiresAt = Undefined THEN FALSE
    ELSE db[id].tokenExpiresAt < now + FIVE_MINUTES

\* What the try block returns once findUnique has answered.
needsRefresh(id) ==
    IF ~Exists(id) \/ ~db[id].isActive THEN FALSE
    ELSE IF db[id].tokenExpiresAt = Undefined THEN FALSE
    ELSE db[id].tokenExpiresAt <= now + FIVE_MINUTES

\* One call: findUnique answers, or it throws and the catch returns true
\* (remote then holds "threw").
NeedsRefreshCall(p) ==
    /\ BeginCall(p)
    /\ \E id \in CallIds, threw \in BOOLEAN :
         LET l == [LocIdle EXCEPT !.op = "needsRefresh", !.accountId = id]
         IN  IF threw
             THEN Goto(p, "done", [l EXCEPT !.remote = "threw",
                                            !.result = "true"])
             ELSE Goto(p, "done",
                       [l EXCEPT !.result = IF needsRefresh(id)
                                            THEN "true" ELSE "false"])
    /\ UNCHANGED <<now, db, issued, newestRT>>
    /\ UNCHANGED <<sessVars, authVars>>

(***************************************************************************)
(* CredentialService.updateCredentials, content.ts 788-855.                *)
(***************************************************************************)
\* await findUnique (793): a missing row throws NOT_FOUND inside the try, and
\* the catch (847-853) rethrows it as INTERNAL_SERVER_ERROR.
UpdFindStep(p, l) ==
    IF ~Exists(l.accountId) THEN Finish(p, l, "INTERNAL_SERVER_ERROR")
    ELSE IF Truthy(l.updates.accessToken) \/ Truthy(l.updates.refreshToken)
    THEN Goto(p, "upd_getcur", l)
    ELSE Goto(p, "upd_write", l)

\* The merge of lines 812-817: the tokens that get encrypted.
MergedAccessToken(updates, cur) ==
    OrElse(OrElse(updates.accessToken, cur.accessToken), EmptyString)

MergedRefreshToken(updates, cur) ==
    OrElse(updates.refreshToken, cur.refreshToken)

\* updateData of lines 805-837 applied to a row: a column that is not in
\* updateData keeps its value.
\* updateCredentials whose update data also sets isActive.
ApplyUpdateReactivating(row, updates, cur, s1, s2) ==
    [row EXCEPT !.isActive = TRUE]

ApplyUpdate(row, updates, cur, s1, s2) ==
    LET tokens == Truthy(updates.accessToken) \/ Truthy(updates.refreshToken)
        enc == encryptCredentials(MergedAccessToken(updates, cur),
                                  MergedRefreshToken(updates, cur), s1, s2)
    IN  [row EXCEPT
           !.encryptedAccessToken =
               IF tokens THEN enc.encryptedAccessToken ELSE @,
           !.encryptedRefreshToken =
               IF tokens /\ enc.encryptedRefreshToken # NoBlob
               THEN enc.encryptedRefreshToken ELSE @,
           !.tokenExpiresAt =
               IF updates.expiresAt # Undefined THEN updates.expiresAt ELSE @,
           !.displayName =
               IF updates.displayName # NoName
               THEN updates.displayName ELSE @]

\* What a caller of updateCredentials can supply.
UpdateInputs ==
    {u \in [accessToken : {Undefined, issued + 1},
            refreshToken : {Undefined, issued + 1},
            expiresAt : {Undefined, now + 1},
            displayName : {NoName} \cup Names] :
        /\ u # NoUpdates
        /\ u.displayName # NoName =>
             (u.accessToken = Undefined /\ u.refreshToken = Undefined
              /\ u.expiresAt = Undefined)}

\* updateCredentials called directly: the call and its findUnique.
UpdateBegin(p) ==
    /\ BeginCall(p)
    /\ issued <= MaxIssued
    /\ \E id \in CallIds, u \in UpdateInputs :
         UpdFindStep(p, [LocIdle EXCEPT !.op = "updateCredentials",
                                        !.accountId = id, !.updates = u])
    /\ issued' = issued + 1
    /\ UNCHANGED <<now, db, newestRT>>
    /\ UNCHANGED <<sessVars, authVars>>

\* await this.getCredentials(accountId) (811).
UpdGetCur(p) ==
    /\ pc[p] = "upd_getcur"
    /\ LET c == getCredentials(loc[p].accountId)
       IN  Goto(p, "upd_write", [loc[p] EXCEPT !.cur = c, !.readNull = ~c.ok])
    /\ UNCHANGED <<now, db, issued, newestRT>>
    /\ UNCHANGED <<sessVars, authVars>>

\* await db.socialAccount.update (839).
UpdWrite(p) ==
    /\ pc[p] = "upd_write"
    /\ Exists(loc[p].accountId)
    /\ \E s1 \in Salts, s2 \in Salts :
         db' = [db EXCEPT ![loc[p].accountId] =
                    ApplyUpdate(@, loc[p].updates, loc[p].cur, s1, s2)]
    /\ Finish(p, loc[p], "ok")
    /\ UNCHANGED <<now, issued, newestRT>>
    /\ UNCHANGED <<sessVars, authVars>>

(***************************************************************************)
(* refreshToken of the three providers: x-auth-provider.ts 122-174,        *)
(* facebook (part_007) 115-161, linkedin (part_008) 120-170.               *)
(***************************************************************************)
\* refreshToken without the test of the refresh token: only missing
\* credentials end the call.
RefreshReadUnchecked(p) ==
    /\ BeginCall(p)
    /\ \E provider \in Platforms, id \in CallIds :
         LET c == getCredentials(id)
             l == [LocIdle EXCEPT !.op = "refreshToken",
                                  !.provider = provider,
                                  !.accountId = id,
                                  !.creds = c,
                                  !.startedExpired = ExpiredWithRefreshToken(id)]
         IN  IF ~c.ok
             THEN Finish(p, l, "NOT_FOUND")
             ELSE Goto(p, "rt_exchange", l)
    /\ UNCHANGED <<now, db, issued, newestRT>>
    /\ UNCHANGED <<sessVars, authVars>>

\* refreshToken of the provider registered under tag: getStoredCredentials,
\* then NOT_FOUND without a refresh token.
RefreshReadVia(p, tag, provider) ==
    /\ BeginCall(p)
    /\ \E id \in CallIds :
         LET c == getCredentials(id)
             l == [LocIdle EXCEPT !.op = "refreshToken",
                                  !.tag = tag,
                                  !.provider = provider,
                                  !.accountId = id,
                                  !.creds = c,
                                  !.startedExpired = ExpiredWithRefreshToken(id)]
         IN  IF ~c.ok \/ ~Truthy(c.refreshToken)
             THEN Finish(p, l, "NOT_FOUND")
             ELSE Goto(p, "rt_exchange", l)
    /\ UNCHANGED <<now, db, issued, newestRT>>
    /\ UNCHANGED <<sessVars, authVars>>

\* refreshToken of any of the three providers.
RefreshRead(p) == \E provider \in Platforms : RefreshReadVia(p, provider, provider)

\* The expires_in values a platform answers with.
ExpiresInValues == {Undefined, 1}

\* What the server of a provider can leave out: expires_in is optional in the
\* answers of X and Facebook and required in LinkedIn's.
ExpiresInOf(provider) ==
    IF provider = "linkedin" THEN ExpiresInValues \ {Undefined}
    ELSE ExpiresInValues

\* Updates that never carry an expiry.
RefreshUpdatesKeepingExpiry(provider, accessToken, refreshToken, expiresIn) ==
    [accessToken  |-> accessToken,
     refreshToken |-> IF provider = "facebook" THEN Undefined ELSE refreshToken,
     expiresAt    |-> Undefined,
     displayName  |-> NoName]

\* The updates each provider hands to updateStoredCredentials.
RefreshUpdates(provider, accessToken, refreshToken, expiresIn) ==
    [accessToken  |-> accessToken,
     refreshToken |-> IF provider = "facebook" THEN Undefined ELSE refreshToken,
     expiresAt    |-> IF expiresIn = Undefined THEN Undefined ELSE now + expiresIn,
     displayName  |-> NoName]

\* The token endpoint answers 200: fresh token material, the refresh token
\* rotated or left out.  remote records whether the refresh token presented
\* was the newest one ("ok") or one already rotated away ("ok_stale").
RefreshExchangeOk(p) ==
    /\ pc[p] = "rt_exchange"
    /\ issued <= MaxIssued
    /\ issued' = issued + 1
    /\ \E rotated \in BOOLEAN, expiresIn \in ExpiresInOf(loc[p].provider) :
         LET rt == IF rotated /\ loc[p].provider # "facebook"
                   THEN issued + 1 ELSE Undefined
         IN  /\ newestRT' = IF rt = Undefined THEN newestRT ELSE rt
             /\ Goto(p, "upd_find",
                     [loc[p] EXCEPT
                        !.remote = IF loc[p].creds.refreshToken = newestRT
                                   THEN "ok" ELSE "ok_stale",
                        !.expiresIn = expiresIn,
                        !.updates = RefreshUpdates(loc[p].provider, issued + 1,
                                                   rt, expiresIn)])
    /\ UNCHANGED <<now, db>>
    /\ UNCHANGED <<sessVars, authVars>>

\* The token endpoint answers with a non-OK status, or fetch throws: the
\* catch hands the Error to handleOAuthError.
\* refreshToken that deactivates the record when the platform refuses.
RefreshExchangeFailDeactivating(p) ==
    /\ pc[p] = "rt_exchange"
    /\ db' = [db EXCEPT ![loc[p].accountId].isActive = FALSE]
    /\ Finish(p, [loc[p] EXCEPT !.remote = "notok"], "INTERNAL_SERVER_ERROR")
    /\ UNCHANGED <<now, issued, newestRT>>
    /\ UNCHANGED <<sessVars, authVars>>

RefreshExchangeFail(p) ==
    /\ pc[p] = "rt_exchange"
    /\ \E how \in {"notok", "threw"} :
         Finish(p, [loc[p] EXCEPT !.remote = how], "INTERNAL_SERVER_ERROR")
    /\ UNCHANGED <<now, db, issued, newestRT>>
    /\ UNCHANGED <<sessVars, authVars>>

\* The token endpoint answers with a status that is not OK, the status kept.
RefreshExchangeRefused(p) ==
    /\ pc[p] = "rt_exchange"
    /\ \E status \in HttpStatuses : FailCall(p, status, TRUE)
    /\ UNCHANGED <<now, db, issued, newestRT>>
    /\ UNCHANGED <<sessVars, authVars>>

\* updateStoredCredentials -> updateCredentials: its findUnique.
RefreshUpdFind(p) ==
    /\ pc[p] = "upd_find"
    /\ UpdFindStep(p, loc[p])
    /\ UNCHANGED <<now, db, issued, newestRT>>
    /\ UNCHANGED <<sessVars, authVars>>

(***************************************************************************)
(* revokeAccess of the three providers (x-auth-provider.ts 176-210) and    *)
(* CredentialService.revokeCredentials (content.ts 860-894).               *)
(***************************************************************************)
RevokeReadVia(p, tag, provider) ==
    /\ BeginCall(p)
    /\ \E id \in CallIds :
         LET c == getCredentials(id)
             l == [LocIdle EXCEPT !.op = "revokeAccess",
                                  !.tag = tag,
                                  !.provider = provider,
                                  !.accountId = id,
                                  !.creds = c]
         IN  IF ~c.ok THEN Finish(p, l, "returned")
             ELSE Goto(p, "rv_remote", l)
    /\ UNCHANGED <<now, db, issued, newestRT>>
    /\ UNCHANGED <<sessVars, authVars>>

RevokeRead(p) == \E provider \in Platforms : RevokeReadVia(p, provider, provider)

\* The revoke endpoint answers OK, answers non-OK (a warning), or fetch throws
\* (the catch): each path goes on to revokeCredentials.
RevokeRemote(p) ==
    /\ pc[p] = "rv_remote"
    /\ \E how \in {"ok", "notok", "threw"} :
         Goto(p, "rvc_find", [loc[p] EXCEPT !.remote = how])
    /\ UNCHANGED <<now, db, issued, newestRT>>
    /\ UNCHANGED <<sessVars, authVars>>

\* revokeCredentials: findUnique (862), NOT_FOUND rethrown as
\* INTERNAL_SERVER_ERROR.
RvcFindStep(p, l) ==
    IF ~Exists(l.accountId) THEN Finish(p, l, "INTERNAL_SERVER_ERROR")
    ELSE Goto(p, "rvc_write", l)

RvcFind(p) ==
    /\ pc[p] = "rvc_find"
    /\ RvcFindStep(p, loc[p])
    /\ UNCHANGED <<now, db, issued, newestRT>>
    /\ UNCHANGED <<sessVars, authVars>>

\* update isActive: false (874-880).
Deactivate(row) == [row EXCEPT !.isActive = FALSE]

\* revokeCredentials with a delete where the code has an update.
RvcWriteDeleting(p) ==
    /\ pc[p] = "rvc_write"
    /\ Exists(loc[p].accountId)
    /\ db' = [i \in 1..(Len(db) - 1) |->
                IF i < loc[p].accountId THEN db[i] ELSE db[i + 1]]
    /\ Finish(p, loc[p], "returned")
    /\ UNCHANGED <<now, issued, newestRT>>
    /\ UNCHANGED <<sessVars, authVars>>

RvcWrite(p) ==
    /\ pc[p] = "rvc_write"
    /\ Exists(loc[p].accountId)
    /\ db' = [db EXCEPT ![loc[p].accountId] = Deactivate(@)]
    /\ Finish(p, loc[p], "returned")
    /\ UNCHANGED <<now, issued, newestRT>>
    /\ UNCHANGED <<sessVars, authVars>>

(***************************************************************************)
(* cleanupExpiredCredentials, content.ts 949-970: one updateMany.          *)
(***************************************************************************)
\* updateMany with lte where the code has lt.
SweptRowInclusive(row) ==
    IF row.isActive /\ row.tokenExpiresAt # Undefined /\ row.tokenExpiresAt <= now
    THEN Deactivate(row) ELSE row

SweptRow(row) ==
    IF row.isActive /\ row.tokenExpiresAt # Undefined /\ row.tokenExpiresAt < now
    THEN Deactivate(row) ELSE row

CleanupExpired ==
    /\ db' = [i \in DOMAIN db |-> SweptRow(db[i])]
    /\ db' # db
    /\ UNCHANGED <<now, pc, loc, issued, newestRT>>
    /\ UNCHANGED <<sessVars, authVars>>

\* One call with what it returns: result.count of the updateMany, or 0 from
\* the catch when updateMany throws (remote then holds "threw").
CleanupCall(p) ==
    /\ BeginCall(p)
    /\ \E threw \in BOOLEAN :
         LET l == [LocIdle EXCEPT !.op = "cleanupExpiredCredentials"]
         IN  IF threw
             THEN /\ db' = db
                  /\ Goto(p, "done", [l EXCEPT !.remote = "threw",
                                               !.result = "returned"])
             ELSE /\ db' = [i \in DOMAIN db |-> SweptRow(db[i])]
                  /\ Goto(p, "done",
                          [l EXCEPT !.count = Cardinality(
                                        {i \in DOMAIN db : SweptRow(db[i]) # db[i]}),
                                    !.result = "returned"])
    /\ UNCHANGED <<now, issued, newestRT>>
    /\ UNCHANGED <<sessVars, authVars>>

Tick ==
    /\ now < MaxTime
    /\ now' = now + 1
    /\ UNCHANGED <<db, pc, loc, issued, newestRT>>
    /\ UNCHANGED <<sessVars, authVars>>

(***************************************************************************)
(* CredentialService.storeCredentials, content.ts 662-735.                 *)
(***************************************************************************)
Triples ==
    {[workspaceId |-> "ws1", platform |-> "x", platformAccountId |-> "u1"],
     [workspaceId |-> "ws1", platform |-> "linkedin", platformAccountId |-> "u1"]}

TripleOf(row) ==
    [workspaceId |-> row.workspaceId, platform |-> row.platform,
     platformAccountId |-> row.platformAccountId]

RowsOf(triple) == {i \in DOMAIN db : TripleOf(db[i]) = triple}

\* findUnique on workspaceId_platform_platformAccountId (678-686): the row's
\* id, 0 for null.
FindByTriple(triple) ==
    IF RowsOf(triple) = {} THEN 0 ELSE CHOOSE i \in RowsOf(triple) : TRUE

\* The call, its encryption and its findUnique.  The caller hands in the
\* tokens of a platform response.
StoreFind(p) ==
    /\ BeginCall(p)
    /\ issued <= MaxIssued
    /\ issued' = issued + 1
    /\ \E triple \in Triples, name \in Names, hasRT \in BOOLEAN,
          expiresIn \in ExpiresInValues :
         Goto(p, "st_write",
              [LocIdle EXCEPT
                 !.op = "storeCredentials",
                 !.triple = triple,
                 !.existing = FindByTriple(triple),
                 !.updates =
                    [accessToken  |-> issued + 1,
                     refreshToken |-> IF hasRT THEN issued + 1 ELSE Undefined,
                     expiresAt    |-> IF expiresIn = Undefined THEN Undefined
                                      ELSE now + expiresIn,
                     displayName  |-> name]])
    /\ UNCHANGED <<now, db, newestRT>>
    /\ UNCHANGED <<sessVars, authVars>>

\* The data of update (692-704): Prisma leaves a column alone whose value is
\* undefined.
StoreUpdateRow(row, c, enc) ==
    [row EXCEPT
       !.displayName = c.displayName,
       !.encryptedAccessToken = enc.encryptedAccessToken,
       !.encryptedRefreshToken =
           IF enc.encryptedRefreshToken = NoBlob THEN @
           ELSE enc.encryptedRefreshToken,
       !.tokenExpiresAt = IF c.expiresAt = Undefined THEN @ ELSE c.expiresAt,
       !.isActive = TRUE]

\* The data of create (707-721).
StoreNewRow(triple, c, enc) ==
    [workspaceId |-> triple.workspaceId,
     platform |-> triple.platform,
     platformAccountId |-> triple.platformAccountId,
     displayName |-> c.displayName,
     encryptedAccessToken |-> enc.encryptedAccessToken,
     encryptedRefreshToken |-> enc.encryptedRefreshToken,
     tokenExpiresAt |-> c.expiresAt,
     isActive |-> TRUE]

\* create with no unique constraint on the triple.
CreateAllowedUnconstrained(triple) == TRUE

\* create under @@unique([workspaceId, platform, platformAccountId])
\* (design.md 488): a second row of the triple is refused.
CreateAllowed(triple) == RowsOf(triple) = {}

\* await update (692) or await create (707).
StoreWrite(p) ==
    /\ pc[p] = "st_write"
    /\ \E s1 \in Salts, s2 \in Salts :
         LET l   == loc[p]
             enc == encryptCredentials(l.updates.accessToken,
                                       l.updates.refreshToken, s1, s2)
         IN  IF l.existing # 0
             THEN /\ db' = [db EXCEPT ![l.existing] =
                                StoreUpdateRow(@, l.updates, enc)]
                  /\ Finish(p, l, "ok")
             ELSE IF CreateAllowed(l.triple) /\ Len(db) < MaxRecords
             THEN /\ db' = Append(db, StoreNewRow(l.triple, l.updates, enc))
                  /\ Finish(p, l, "ok")
             ELSE /\ db' = db
                  /\ Finish(p, l, "INTERNAL_SERVER_ERROR")
    /\ UNCHANGED <<now, issued, newestRT>>
    /\ UNCHANGED <<sessVars, authVars>>

(***************************************************************************)
(* Initial states: the rows an earlier callback has left.                  *)
(***************************************************************************)
FirstTriple ==
    [workspaceId |-> "ws1", platform |-> "x", platformAccountId |-> "u1"]

\* A row stored for FirstTriple with the platform's first tokens.
InitRow(hasRT, expiresAt, active) ==
    [StoreNewRow(FirstTriple,
                 [accessToken |-> 1, refreshToken |-> 1,
                  expiresAt |-> expiresAt, displayName |-> "Ann"],
                 encryptCredentials(1, IF hasRT THEN 1 ELSE Undefined, 1, 1))
     EXCEPT !.isActive = active]

InitExpiries == {Undefined, 0, MaxTime + 1}

InitProcs ==
    /\ now = 0
    /\ pc = [p \in Procs |-> "idle"]
    /\ loc = [p \in Procs |-> LocIdle]
    /\ issued = 1
    /\ store = EmptyMap
    /\ cleanupTimer = NoTimer
    /\ minted = {}
    /\ latest = EmptyMap
    /\ served = EmptyMap
    /\ credentialOperationLimits = EmptyMap

\* One row, in any of the conditions a row can be in.
InitAnyRow ==
    /\ InitProcs
    /\ \E hasRT \in BOOLEAN, e \in InitExpiries, active \in BOOLEAN :
         /\ db = <<InitRow(hasRT, e, active)>>
         /\ newestRT = IF hasRT THEN 1 ELSE Undefined

\* Two refreshToken calls, the clock and the sweep, on one row.
NextRefresh ==
    \/ \E p \in Procs :
         \/ RefreshRead(p)
         \/ RefreshExchangeOk(p)
         \/ RefreshExchangeFail(p)
         \/ RefreshUpdFind(p)
         \/ UpdGetCur(p)
         \/ UpdWrite(p)
    \/ CleanupExpired
    \/ Tick

SpecRefresh == InitAnyRow /\ [][NextRefresh]_vars

\* One refreshToken call and the clock: nothing else touches the row.
NextRefreshAlone ==
    \/ \E p \in {"p1"} :
         \/ RefreshRead(p)
         \/ RefreshExchangeOk(p)
         \/ RefreshExchangeFail(p)
         \/ RefreshUpdFind(p)
         \/ UpdGetCur(p)
         \/ UpdWrite(p)
    \/ Tick

SpecRefreshAlone == InitAnyRow /\ [][NextRefreshAlone]_vars


\* revokeAccess calls, the clock and the sweep, on one row.
NextRevoke ==
    \/ \E p \in Procs :
         \/ RevokeRead(p)
         \/ RevokeRemote(p)
         \/ RvcFind(p)
         \/ RvcWrite(p)
    \/ CleanupExpired
    \/ Tick

SpecRevoke == InitAnyRow /\ [][NextRevoke]_vars

\* Two updateCredentials calls and the clock, on one row.
NextUpdate ==
    \/ \E p \in Procs :
         \/ UpdateBegin(p)
         \/ UpdGetCur(p)
         \/ UpdWrite(p)
    \/ Tick

SpecUpdate == InitAnyRow /\ [][NextUpdate]_vars

\* One updateCredentials call and the clock, on one row.
NextUpdateAlone ==
    \/ \E p \in {"p1"} :
         \/ UpdateBegin(p)
         \/ UpdGetCur(p)
         \/ UpdWrite(p)
    \/ Tick

SpecUpdateAlone == InitAnyRow /\ [][NextUpdateAlone]_vars

\* No row, or one row in any condition.
InitStore ==
    /\ InitProcs
    /\ newestRT = Undefined
    /\ \/ db = <<>>
       \/ \E hasRT \in BOOLEAN, e \in InitExpiries, active \in BOOLEAN :
            db = <<InitRow(hasRT, e, active)>>

\* Two storeCredentials calls.
NextStore ==
    \E p \in Procs :
        \/ StoreFind(p)
        \/ StoreWrite(p)

SpecStore == InitStore /\ [][NextStore]_vars

\* One storeCredentials call, the clock and the sweep, on one row.
NextStoreAlone ==
    \/ \E p \in {"p1"} :
         \/ StoreFind(p)
         \/ StoreWrite(p)
    \/ CleanupExpired
    \/ Tick

SpecStoreAlone == InitAnyRow /\ [][NextStoreAlone]_vars

\* getCredentials calls on a row that a storeCredentials, the sweep and the
\* clock change.
NextRead ==
    \/ \E p \in {"p1"} : CredsGet(p)
    \/ \E p \in {"p2"} :
         \/ StoreFind(p)
         \/ StoreWrite(p)
    \/ CleanupExpired
    \/ Tick

SpecRead == InitAnyRow /\ [][NextRead]_vars

\* needsRefresh calls on a row that a storeCredentials, the sweep and the
\* clock change.
NextNeedsRefresh ==
    \/ \E p \in {"p1"} : NeedsRefreshCall(p)
    \/ \E p \in {"p2"} :
         \/ StoreFind(p)
         \/ StoreWrite(p)
    \/ CleanupExpired
    \/ Tick

SpecNeedsRefresh == InitAnyRow /\ [][NextNeedsRefresh]_vars

\* One cleanupExpiredCredentials call on the rows an earlier callback and a
\* storeCredentials have left, and the clock.
NextSweep ==
    \/ \E p \in {"p1"} : CleanupCall(p)
    \/ \E p \in {"p2"} :
         \/ StoreFind(p)
         \/ StoreWrite(p)
    \/ Tick

SpecSweep == InitAnyRow /\ [][NextSweep]_vars




(***************************************************************************)
(* OAuthSessionStore, oauth-state-manager.ts 149-230.                      *)
(***************************************************************************)
\* get returns null.
NoData == Undefined

\* set (157-165): the entry, and the timer started if there is none.
StoreAfterSet(key, data, ttlMs) ==
    MapPut(store, key, [data |-> data, expiresAt |-> now + ttlMs])

\* set that calls startCleanup whether a timer is running or not.
TimerAfterSetAlways == now + CLEANUP_INTERVAL

TimerAfterSet ==
    IF cleanupTimer = NoTimer THEN now + CLEANUP_INTERVAL ELSE cleanupTimer

\* get (170-185): what it returns.
SessionGet(key) ==
    IF key \notin DOMAIN store THEN NoData
    ELSE IF now > store[key].expiresAt THEN NoData
    ELSE store[key].data

\* get keeps the entry it has returned.
StoreAfterGetKeeping(key) ==
    IF key \in DOMAIN store /\ now > store[key].expiresAt
    THEN MapDelete(store, key) ELSE store

\* get (178, 183): the entry is deleted, expired or returned.
StoreAfterGet(key) == MapDelete(store, key)

\* has (190-202): an expired entry is deleted.
StoreAfterHas(key) ==
    IF key \in DOMAIN store /\ now > store[key].expiresAt
    THEN MapDelete(store, key) ELSE store

\* cleanup that deletes nothing.
StoreAfterCleanupNone == store

\* cleanup (207-213): the entries that are not expired.
StoreAfterCleanup ==
    [k \in {x \in DOMAIN store : ~(now > store[x].expiresAt)} |-> store[k]]

Keys == {"k1", "k2"}
TtlValues == {CLEANUP_INTERVAL, DEFAULT_TTL_MS}

\* The data of the next set: one more than any data set before.
SetsSoFar ==
    IF DOMAIN latest = {} THEN 0
    ELSE CHOOSE n \in {latest[k] : k \in DOMAIN latest} :
           \A k \in DOMAIN latest : latest[k] <= n

SessSet ==
    /\ SetsSoFar < MaxSets
    /\ \E key \in Keys, ttlMs \in TtlValues :
         /\ store' = StoreAfterSet(key, SetsSoFar + 1, ttlMs)
         /\ latest' = MapPut(latest, key, SetsSoFar + 1)
         /\ served' = MapPut(served, key, <<>>)
    /\ cleanupTimer' = TimerAfterSet
    /\ UNCHANGED <<now, db, pc, loc, issued, newestRT, authVars>>

SessGet ==
    /\ \E key \in Keys :
         /\ store' = StoreAfterGet(key)
         /\ IF key \in DOMAIN served
            THEN /\ Len(served[key]) < MaxGets
                 /\ served' = [served EXCEPT ![key] = Append(@, SessionGet(key))]
            ELSE served' = served
    /\ UNCHANGED <<now, db, pc, loc, issued, newestRT, cleanupTimer, latest,
                   authVars>>

SessHas ==
    /\ \E key \in Keys : store' = StoreAfterHas(key)
    /\ UNCHANGED <<now, db, pc, loc, issued, newestRT, cleanupTimer, latest,
                   served, authVars>>

\* The interval timer fires: cleanup (207-220).
SessCleanup ==
    /\ cleanupTimer # NoTimer
    /\ now >= cleanupTimer
    /\ store' = StoreAfterCleanup
    /\ cleanupTimer' = IF DOMAIN StoreAfterCleanup = {} THEN NoTimer
                       ELSE cleanupTimer + CLEANUP_INTERVAL
    /\ UNCHANGED <<now, db, pc, loc, issued, newestRT, latest, served, authVars>>

InitSession ==
    /\ InitProcs
    /\ db = <<>>
    /\ newestRT = Undefined

NextSession ==
    \/ SessSet
    \/ SessGet
    \/ SessHas
    \/ SessCleanup
    \/ Tick

SpecSession == InitSession /\ [][NextSession]_vars

\* The store with a clock that goes on and an interval that keeps firing
\* (setInterval, 225-229).  The clock of the model stops at MaxTime, so the
\* sets are those whose entries expire before it does.
SessSetInTime ==
    /\ SessSet
    /\ \A k \in DOMAIN store' : store'[k].expiresAt < MaxTime

NextSessionLive ==
    \/ SessSetInTime
    \/ SessGet
    \/ SessHas
    \/ SessCleanup
    \/ Tick

SpecSessionLive ==
    /\ InitSession
    /\ [][NextSessionLive]_vars
    /\ WF_vars(Tick)
    /\ WF_vars(SessCleanup)

(***************************************************************************)
(* OAuthStateManager, oauth-state-manager.ts 12-143.  A state token is the *)
(* state data sealed under the state secret: parseState gets the data back *)
(* from a token generateState made, and from no other string.              *)
(***************************************************************************)
Workspaces == {"ws1"}
AccountTypes == {"personal", "business"}

generateState(workspaceId, platform, accountType, nonce) ==
    [sealed |-> TRUE, workspaceId |-> workspaceId, platform |-> platform,
     accountType |-> accountType, timestamp |-> now, nonce |-> nonce]

\* parseState without the test of the age (69-77).
parseStateNoExpiry(state) ==
    IF ~state.sealed
    THEN [data |-> NoState, isValid |-> FALSE, error |-> "Failed to parse state"]
    ELSE IF \/ state.workspaceId = "" \/ state.platform = ""
            \/ state.accountType = "" \/ state.nonce = 0
    THEN [data |-> NoState, isValid |-> FALSE, error |-> "Invalid state format"]
    ELSE [data |-> state, isValid |-> TRUE, error |-> ""]

\* parseState with >= where the code has > (71).
parseStateInclusive(state) ==
    IF ~state.sealed
    THEN [data |-> NoState, isValid |-> FALSE, error |-> "Failed to parse state"]
    ELSE IF \/ state.workspaceId = "" \/ state.platform = ""
            \/ state.accountType = "" \/ state.nonce = 0
    THEN [data |-> NoState, isValid |-> FALSE, error |-> "Invalid state format"]
    ELSE IF now - state.timestamp >= STATE_EXPIRY_MS
    THEN [data |-> state, isValid |-> FALSE, error |-> "State has expired"]
    ELSE [data |-> state, isValid |-> TRUE, error |-> ""]

\* parseState (46-91).  Date.now() is never 0, so a timestamp that is there
\* is truthy.
parseState(state) ==
    IF ~state.sealed
    THEN [data |-> NoState, isValid |-> FALSE, error |-> "Failed to parse state"]
    ELSE IF \/ state.workspaceId = "" \/ state.platform = ""
            \/ state.accountType = "" \/ state.nonce = 0
    THEN [data |-> NoState, isValid |-> FALSE, error |-> "Invalid state format"]
    ELSE IF now - state.timestamp > STATE_EXPIRY_MS
    THEN [data |-> state, isValid |-> FALSE, error |-> "State has expired"]
    ELSE [data |-> state, isValid |-> TRUE, error |-> ""]

\* What a call gives back: a value returned, or an exception.
Returned(value) == [threw |-> FALSE, value |-> value]

Thrown == [threw |-> TRUE,
           value |-> [data |-> NoState, isValid |-> FALSE, error |-> ""]]

\* parseState that reads the secret before its try block.
parseStateSecretOutsideTry(secret, state) ==
    IF ~secret THEN Thrown ELSE Returned(parseState(state))

\* parseState under a secret that is configured or not: getStateSecret (135-
\* 142) throws inside the try block (54) when neither variable is set, and
\* the catch (83-90) returns.
parseStateWithSecret(secret, state) ==
    IF ~secret
    THEN Returned([data |-> NoState, isValid |-> FALSE,
                   error |-> "Failed to parse state"])
    ELSE Returned(parseState(state))

\* !stateResult.isValid || !stateResult.data
StateRejected(r) == ~r.isValid \/ r.data = NoState

\* `pkce:${state}`
PkceKey(state) == state

\* A handler that goes on without the verifier.
PkceMissingNever(pkceData) == FALSE

\* !pkceData?.codeVerifier (x-auth-provider.ts 99)
PkceMissing(pkceData) == pkceData = NoData

(***************************************************************************)
(* initiateAuth of the three providers: the state is minted and, for X,    *)
(* the code verifier is put in the session store under the state.          *)
(***************************************************************************)
InitiateAuthIn(workspaces) ==
    /\ Cardinality(minted) < MaxMint
    /\ \E provider \in Platforms, ws \in workspaces, accountType \in AccountTypes :
         LET n     == Cardinality(minted) + 1
             state == generateState(ws, provider, accountType, n)
         IN  /\ minted' = minted \cup {state}
             /\ UNCHANGED credentialOperationLimits
             /\ IF provider = "x"
                THEN /\ store' = StoreAfterSet(PkceKey(state), n, DEFAULT_TTL_MS)
                     /\ cleanupTimer' = TimerAfterSet
                     /\ latest' = MapPut(latest, PkceKey(state), n)
                     /\ served' = MapPut(served, PkceKey(state), <<>>)
                ELSE UNCHANGED sessVars
    /\ UNCHANGED <<now, db, pc, loc, issued, newestRT>>

InitiateAuth == InitiateAuthIn(Workspaces)

(***************************************************************************)
(* handleCallback of the three providers: x-auth-provider.ts 83-120,       *)
(* facebook (part_007) 77-113, linkedin (part_008) 84-118.                 *)
(***************************************************************************)
\* Data sealed under the state secret that lacks the account type.
IncompleteState ==
    [sealed |-> TRUE, workspaceId |-> "ws1", platform |-> "x",
     accountType |-> "", timestamp |-> 0, nonce |-> 1]

\* The state strings a callback can carry: the minted ones, one that does not
\* decrypt and one that decrypts to incomplete data.
CallbackStates == minted \cup {NoState, IncompleteState}

\* The callbacks are served one after the other.
OneAtATime(p) == \A q \in Procs \ {p} : pc[q] \in {"idle", "done"}

\* The call up to its first await: the state is parsed, and X takes the code
\* verifier out of the session store.
CallbackBeginVia(p, tag, provider) ==
    /\ BeginCall(p)
    /\ OneAtATime(p)
    /\ \E state \in CallbackStates :
         LET l == [LocIdle EXCEPT !.op = "handleCallback",
                                  !.tag = tag,
                                  !.provider = provider,
                                  !.state = state]
         IN  IF StateRejected(parseState(state))
             THEN /\ Finish(p, [l EXCEPT !.message =
                                    "Invalid or expired OAuth state"],
                            "BAD_REQUEST")
                  /\ UNCHANGED sessVars
             ELSE IF provider = "x"
             THEN /\ store' = StoreAfterGet(PkceKey(state))
                  /\ served' = IF PkceKey(state) \in DOMAIN served
                               THEN [served EXCEPT ![PkceKey(state)] =
                                        Append(@, SessionGet(PkceKey(state)))]
                               ELSE served
                  /\ UNCHANGED <<cleanupTimer, latest>>
                  /\ IF PkceMissing(SessionGet(PkceKey(state)))
                     THEN Finish(p, [l EXCEPT !.message =
                                        "PKCE code verifier not found"],
                                 "BAD_REQUEST")
                     ELSE Goto(p, "cb_exchange", l)
             ELSE /\ Goto(p, "cb_exchange", l)
                  /\ UNCHANGED sessVars
    /\ UNCHANGED <<now, db, issued, newestRT, authVars>>

CallbackBegin(p) ==
    \E provider \in Platforms : CallbackBeginVia(p, provider, provider)

\* exchangeCodeForTokens: the token endpoint answers 200.  Facebook's answer
\* holds no refresh token.
CbExchangeOk(p) ==
    /\ pc[p] = "cb_exchange"
    /\ issued <= MaxIssued
    /\ issued' = issued + 1
    /\ \E hasRT \in BOOLEAN, expiresIn \in ExpiresInValues :
         Goto(p, "cb_account",
              [loc[p] EXCEPT
                 !.remote = "ok",
                 !.expiresIn = expiresIn,
                 !.updates =
                    [accessToken  |-> issued + 1,
                     refreshToken |-> IF hasRT /\ loc[p].provider # "facebook"
                                      THEN issued + 1 ELSE Undefined,
                     expiresAt    |-> Undefined,
                     displayName  |-> NoName]])
    /\ UNCHANGED <<now, db, newestRT, sessVars, authVars>>

\* The token endpoint answers non-OK or fetch throws: handleOAuthError.
CbExchangeFail(p) ==
    /\ pc[p] = "cb_exchange"
    /\ \E status \in HttpStatuses : FailCall(p, status, FALSE)
    /\ UNCHANGED <<now, db, issued, newestRT, sessVars, authVars>>

\* The same, the status kept.
CbExchangeRefused(p) ==
    /\ pc[p] = "cb_exchange"
    /\ \E status \in HttpStatuses : FailCall(p, status, TRUE)
    /\ UNCHANGED <<now, db, issued, newestRT, sessVars, authVars>>

\* The page or organization list is fetched for these account types.
NeedsPages(provider, accountType) ==
    \/ provider = "facebook" /\ accountType = "page"
    \/ provider = "linkedin" /\ accountType = "business"

\* getAccountInfo answers with the platform's account.
CbAccountOk(p) ==
    /\ pc[p] = "cb_account"
    /\ \E name \in Names :
         Goto(p, IF NeedsPages(loc[p].provider, loc[p].state.accountType)
                 THEN "cb_pages" ELSE "cb_find",
              [loc[p] EXCEPT !.updates.displayName = name])
    /\ UNCHANGED <<now, db, issued, newestRT, sessVars, authVars>>

\* A handler that goes on to store when getAccountInfo has failed.
CbAccountFailIgnored(p) ==
    /\ pc[p] = "cb_account"
    /\ Goto(p, "cb_find", [loc[p] EXCEPT !.remote = "notok"])
    /\ UNCHANGED <<now, db, issued, newestRT, sessVars, authVars>>

CbAccountFail(p) ==
    /\ pc[p] = "cb_account"
    /\ \E status \in HttpStatuses : FailCall(p, status, FALSE)
    /\ UNCHANGED <<now, db, issued, newestRT, sessVars, authVars>>

\* The same, the status kept.
CbAccountRefused(p) ==
    /\ pc[p] = "cb_account"
    /\ \E status \in HttpStatuses : FailCall(p, status, TRUE)
    /\ UNCHANGED <<now, db, issued, newestRT, sessVars, authVars>>

\* getUserPages / getUserOrganizations: a failure gives the empty list.
CbPages(p) ==
    /\ pc[p] = "cb_pages"
    /\ Goto(p, "cb_find", loc[p])
    /\ UNCHANGED <<now, db, issued, newestRT, sessVars, authVars>>

\* The account the platform reports.
PlatformAccountId == "u1"

\* storeCredentials called with a workspace that is not the state's.
CbStoreFindElsewhere(p) ==
    /\ pc[p] = "cb_find"
    /\ LET triple == [workspaceId |-> "ws1",
                      platform |-> loc[p].provider,
                      platformAccountId |-> PlatformAccountId]
       IN  Goto(p, "st_write",
                [loc[p] EXCEPT !.triple = triple,
                               !.existing = FindByTriple(triple)])
    /\ UNCHANGED <<now, db, issued, newestRT, sessVars, authVars>>

\* storeCredentials of the base class (base-auth-provider.ts 111-137), up to
\* the findUnique of CredentialService.storeCredentials.
CbStoreFind(p) ==
    /\ pc[p] = "cb_find"
    /\ LET triple == [workspaceId |-> loc[p].state.workspaceId,
                      platform |-> loc[p].provider,
                      platformAccountId |-> PlatformAccountId]
       IN  Goto(p, "st_write",
                [loc[p] EXCEPT
                   !.triple = triple,
                   !.existing = FindByTriple(triple),
                   !.updates.expiresAt =
                       IF loc[p].expiresIn = Undefined THEN Undefined
                       ELSE now + loc[p].expiresIn])
    /\ UNCHANGED <<now, db, issued, newestRT, sessVars, authVars>>

InitAuth ==
    /\ InitProcs
    /\ db = <<>>
    /\ newestRT = Undefined

NextAuth ==
    \/ InitiateAuth
    \/ \E p \in Procs :
         \/ CallbackBegin(p)
         \/ CbExchangeOk(p)
         \/ CbExchangeFail(p)
         \/ CbAccountOk(p)
         \/ CbAccountFail(p)
         \/ CbPages(p)
         \/ CbStoreFind(p)
         \/ StoreWrite(p)
    \/ Tick

SpecAuth == InitAuth /\ [][NextAuth]_vars

\* The callbacks within the lifetime of the states: the clock stands still.
NextReplay ==
    \/ InitiateAuth
    \/ \E p \in Procs :
         \/ CallbackBegin(p)
         \/ CbExchangeOk(p)
         \/ CbExchangeFail(p)
         \/ CbAccountOk(p)
         \/ CbAccountFail(p)
         \/ CbPages(p)
         \/ CbStoreFind(p)
         \/ StoreWrite(p)

SpecReplay == InitAuth /\ [][NextReplay]_vars

\* One callback and the clock.
NextCallback ==
    \/ InitiateAuth
    \/ \E p \in {"p1"} :
         \/ CallbackBegin(p)
         \/ CbExchangeOk(p)
         \/ CbExchangeFail(p)
         \/ CbAccountOk(p)
         \/ CbAccountFail(p)
         \/ CbPages(p)
         \/ CbStoreFind(p)
         \/ StoreWrite(p)
    \/ Tick

SpecCallback == InitAuth /\ [][NextCallback]_vars

\* Callbacks of X served one after the other, on the states the providers
\* minted, and the clock.
NextRetry ==
    \/ InitiateAuth
    \/ \E p \in Procs :
         \/ CallbackBeginVia(p, "x", "x")
         \/ CbExchangeOk(p)
         \/ CbExchangeFail(p)
         \/ CbAccountOk(p)
         \/ CbAccountFail(p)
         \/ CbStoreFind(p)
         \/ StoreWrite(p)
    \/ Tick

SpecRetry == InitAuth /\ [][NextRetry]_vars

\* The providers on two workspaces: one handleCallback and the clock, on an
\* empty table or on the row an earlier revoke has left inactive.
ConnectWorkspaces == {"ws1", "ws2"}

InitConnect ==
    /\ InitProcs
    /\ \/ db = <<>> /\ newestRT = Undefined
       \/ \E hasRT \in BOOLEAN, e \in InitExpiries :
            /\ db = <<InitRow(hasRT, e, FALSE)>>
            /\ newestRT = IF hasRT THEN 1 ELSE Undefined

NextConnect ==
    \/ InitiateAuthIn(ConnectWorkspaces)
    \/ \E p \in {"p1"} :
         \/ CallbackBegin(p)
         \/ CbExchangeOk(p)
         \/ CbExchangeFail(p)
         \/ CbAccountOk(p)
         \/ CbAccountFail(p)
         \/ CbPages(p)
         \/ CbStoreFind(p)
         \/ StoreWrite(p)
    \/ Tick

SpecConnect == InitConnect /\ [][NextConnect]_vars

\* One handleCallback or one refreshToken, whose platform calls are answered
\* OK or with a status that is not OK.  getAccountInfo hands its Error to
\* handleOAuthError itself, and the TRPCError that throws is handed to
\* handleOAuthError once more by the catch of handleCallback: it has no
\* response property either.
NextPlatformErrors ==
    \/ InitiateAuth
    \/ \E p \in {"p1"} :
         \/ CallbackBegin(p)
         \/ CbExchangeOk(p)
         \/ CbExchangeRefused(p)
         \/ CbAccountOk(p)
         \/ CbAccountRefused(p)
         \/ CbPages(p)
         \/ CbStoreFind(p)
         \/ StoreWrite(p)
         \/ RefreshRead(p)
         \/ RefreshExchangeOk(p)
         \/ RefreshExchangeRefused(p)
         \/ RefreshUpdFind(p)
         \/ UpdGetCur(p)
         \/ UpdWrite(p)

SpecPlatformErrors == InitAnyRow /\ [][NextPlatformErrors]_vars

(***************************************************************************)
(* The authorization URL of initiateAuth (x-auth-provider.ts 54-81,        *)
(* part_007 56-75, part_008 63-82).  A string is a sequence of characters; *)
(* params.toString() is the application/x-www-form-urlencoded serializer,  *)
(* and the URL is kept as its base and its name=value pairs.               *)
(***************************************************************************)
\* The characters the serializer percent-encodes, with their codes.
PercentCode ==
    [c \in {":", "/", "?", "=", "+", "%"} |->
        CASE c = ":" -> <<"%", "3", "A">>
          [] c = "/" -> <<"%", "2", "F">>
          [] c = "?" -> <<"%", "3", "F">>
          [] c = "=" -> <<"%", "3", "D">>
          [] c = "+" -> <<"%", "2", "B">>
          [] c = "%" -> <<"%", "2", "5">>]

\* A value put in the query as it is.
formEncodeRaw(s) == s

RECURSIVE formEncode(_)
\* URLSearchParams.toString() on one value: a space becomes +, a reserved
\* character its percent code, a letter or digit stays.
formEncode(s) ==
    IF s = <<>> THEN <<>>
    ELSE LET c == Head(s)
             e == IF c = " " THEN <<"+">>
                  ELSE IF c \in DOMAIN PercentCode THEN PercentCode[c]
                  ELSE <<c>>
         IN  e \o formEncode(Tail(s))

RECURSIVE formDecode(_)
\* What URLSearchParams.get gives for a value of a query it has parsed.
formDecode(s) ==
    IF s = <<>> THEN <<>>
    ELSE IF Head(s) = "+" THEN <<" ">> \o formDecode(Tail(s))
    ELSE IF /\ Head(s) = "%" /\ Len(s) >= 3
            /\ \E c \in DOMAIN PercentCode : PercentCode[c] = SubSeq(s, 1, 3)
    THEN <<CHOOSE c \in DOMAIN PercentCode : PercentCode[c] = SubSeq(s, 1, 3)>>
         \o formDecode(SubSeq(s, 4, Len(s)))
    ELSE <<Head(s)>> \o formDecode(Tail(s))

\* The value of the first pair of the query with the name, decoded.
SearchParam(url, name) ==
    LET hits == {i \in DOMAIN url.query : url.query[i][1] = name}
    IN  IF hits = {} THEN <<>>
        ELSE formDecode(url.query[CHOOSE i \in hits : \A j \in hits : i <= j][2])

\* The client id each constructor reads from the environment.
ClientId(provider) ==
    CASE provider = "x" -> <<"x", "1">>
      [] provider = "facebook" -> <<"f", "1">>
      [] provider = "linkedin" -> <<"l", "1">>

\* The base64url text of a state token: letters, digits, - and _ only.
StateText(state) == <<"s", ToString(state.nonce)>>

\* Redirect URIs a caller hands in.
RedirectUris ==
    {<<"a", ":", "/", "/", "b", "/", "c">>,
     <<"a", ":", "/", "/", "b", "?", "c", "=", "a", "+", " ", "%">>}

\* The URL: client_id, redirect_uri, response_type and state (the scope and
\* X's code challenge are further pairs that no operation here reads).
AuthUrl(provider, state, redirectUri) ==
    [base  |-> provider,
     query |-> <<<<"response_type", formEncode(<<"c", "o", "d", "e">>)>>,
                 <<"client_id", formEncode(ClientId(provider))>>,
                 <<"redirect_uri", formEncode(redirectUri)>>,
                 <<"state", formEncode(StateText(state))>>>>]

\* generateCodeVerifier (96-98): the n-th draw of 32 random bytes, in
\* base64url.  The session entry of the n-th initiateAuth holds it.
generateCodeVerifier(n) == <<"v", ToString(n)>>

\* The challenge of method plain: the verifier itself.
generateCodeChallengePlain(verifier) == verifier

\* generateCodeChallenge (103-108): the SHA-256 digest in base64url, a text
\* of the same alphabet that is not the verifier.
generateCodeChallenge(verifier) == <<"h">> \o Tail(verifier)

\* The URL of X (68-78): the challenge and its method follow the state.
AuthUrlX(state, redirectUri, codeChallenge) ==
    [AuthUrl("x", state, redirectUri) EXCEPT
       !.query = @ \o <<<<"code_challenge", formEncode(codeChallenge)>>,
                        <<"code_challenge_method",
                          formEncode(<<"S", "2", "5", "6">>)>>>>]

\* One call of initiateAuth with what it returns; generateState throws when
\* the state secret is not configured (135-142), and nothing is minted.
InitiateCallVia(p, tag, provider) ==
    /\ BeginCall(p)
    /\ Cardinality(minted) < MaxMint
    /\ \E ws \in Workspaces,
          accountType \in AccountTypes, redirectUri \in RedirectUris,
          secret \in BOOLEAN :
         LET n     == Cardinality(minted) + 1
             state == generateState(ws, provider, accountType, n)
             l     == [LocIdle EXCEPT
                         !.op = "initiateAuth", !.tag = tag,
                         !.provider = provider,
                         !.secret = secret,
                         !.args = [workspaceId |-> ws,
                                   accountType |-> accountType,
                                   redirectUri |-> redirectUri]]
         IN  IF ~secret
             THEN /\ Goto(p, "done", [l EXCEPT !.result = "threw"])
                  /\ UNCHANGED <<sessVars, authVars>>
             ELSE /\ minted' = minted \cup {state}
                  /\ UNCHANGED credentialOperationLimits
                  /\ IF provider = "x"
                     THEN /\ store' = StoreAfterSet(PkceKey(state), n,
                                                    DEFAULT_TTL_MS)
                          /\ cleanupTimer' = TimerAfterSet
                          /\ latest' = MapPut(latest, PkceKey(state), n)
                          /\ served' = MapPut(served, PkceKey(state), <<>>)
                     ELSE UNCHANGED sessVars
                  /\ Goto(p, "done",
                          [l EXCEPT
                             !.state = state,
                             !.url = IF provider = "x"
                                     THEN AuthUrlX(state, redirectUri,
                                              generateCodeChallenge(
                                                  generateCodeVerifier(n)))
                                     ELSE AuthUrl(provider, state, redirectUri),
                             !.result = "ok"])
    /\ UNCHANGED <<now, db, issued, newestRT>>

InitiateCall(p) ==
    \E provider \in Platforms : InitiateCallVia(p, provider, provider)

\* initiateAuth calls and the clock.
NextInitiate ==
    \/ \E p \in Procs : InitiateCall(p)
    \/ Tick

SpecInitiate == InitAuth /\ [][NextInitiate]_vars

(***************************************************************************)
(* SocialAuthService, social-auth-service.ts 8-96: one provider per        *)
(* platform, and every operation forwarded to the provider getProvider     *)
(* finds.                                                                  *)
(***************************************************************************)
\* The tags a caller can pass: the registered ones and one that is not.
PlatformTags == Platforms \cup {"instagram"}

\* this.providers.get(platform) === undefined
NoProvider == "undefined"

\* A lookup that falls back on a provider when the tag is not registered.
getProviderDefaulting(platform) ==
    IF platform \in Platforms THEN platform ELSE "x"

\* this.providers.get(platform): the constructor registers the three
\* providers (13-15).
getProvider(platform) ==
    IF platform \in Platforms THEN platform ELSE NoProvider

\* getProvider throws BAD_REQUEST 'Unsupported platform' (23-28): the call
\* ends there.
Unsupported(p, op, tag) ==
    /\ BeginCall(p)
    /\ Finish(p, [LocIdle EXCEPT !.op = op, !.tag = tag], "BAD_REQUEST")
    /\ UNCHANGED <<now, db, issued, newestRT>>
    /\ UNCHANGED <<sessVars, authVars>>

SvcInitiateAuth(p) ==
    \E tag \in PlatformTags :
        IF getProvider(tag) = NoProvider THEN Unsupported(p, "initiateAuth", tag)
        ELSE InitiateCallVia(p, tag, getProvider(tag))

SvcHandleCallback(p) ==
    \E tag \in PlatformTags :
        IF getProvider(tag) = NoProvider THEN Unsupported(p, "handleCallback", tag)
        ELSE CallbackBeginVia(p, tag, getProvider(tag))

SvcRefreshToken(p) ==
    \E tag \in PlatformTags :
        IF getProvider(tag) = NoProvider THEN Unsupported(p, "refreshToken", tag)
        ELSE RefreshReadVia(p, tag, getProvider(tag))

SvcRevokeAccess(p) ==
    \E tag \in PlatformTags :
        IF getProvider(tag) = NoProvider THEN Unsupported(p, "revokeAccess", tag)
        ELSE RevokeReadVia(p, tag, getProvider(tag))

\* getRequiredScopes: the provider returns its list.
SvcGetRequiredScopes(p) ==
    \E tag \in PlatformTags :
        IF getProvider(tag) = NoProvider
        THEN Unsupported(p, "getRequiredScopes", tag)
        ELSE /\ BeginCall(p)
             /\ Goto(p, "done", [LocIdle EXCEPT !.op = "getRequiredScopes",
                                                !.tag = tag,
                                                !.provider = getProvider(tag),
                                                !.result = "returned"])
             /\ UNCHANGED <<now, db, issued, newestRT>>
             /\ UNCHANGED <<sessVars, authVars>>

\* Calls of the service with any tag, on one row, and the clock.
NextDispatch ==
    \/ \E p \in Procs :
         \/ SvcInitiateAuth(p)
         \/ SvcHandleCallback(p)
         \/ SvcRefreshToken(p)
         \/ SvcRevokeAccess(p)
         \/ SvcGetRequiredScopes(p)
    \/ Tick

SpecDispatch == InitAnyRow /\ [][NextDispatch]_vars

(***************************************************************************)
(* src/lib/encryption.ts on strings.  A string is a sequence of UTF-16     *)
(* code units: "a" and "quote" (the character ") are ASCII, "HI" and "LO"  *)
(* are a high and a low surrogate.  The bytes of a text are kept one       *)
(* element per character: "U+10000" is the four bytes of a surrogate pair, *)
(* "U+FFFD" the three bytes of the replacement character, and the pieces   *)
(* of a JSON text ("esc_quote" is \", "esc_HI" is \ud800, "lbrace_k" is    *)
(* {"k": and so on) are ASCII.                                             *)
(***************************************************************************)
Units == {"a", "quote", "HI", "LO"}

RECURSIVE TextsUpTo(_)
TextsUpTo(n) ==
    IF n = 0 THEN {<<>>}
    ELSE TextsUpTo(n - 1) \cup
         {Append(t, u) : t \in {x \in TextsUpTo(n - 1) : Len(x) = n - 1},
                         u \in Units}

\* The strings a caller encrypts: the empty one is among them.
Texts == TextsUpTo(MaxText)

ByteAlphabet ==
    <<"a", "quote", "U+10000", "U+FFFD", "esc_quote", "esc_HI", "esc_LO",
      "null", "lbrace_k", "rbrace">>

ByteIndex(b) == CHOOSE i \in DOMAIN ByteAlphabet : ByteAlphabet[i] = b

RECURSIVE utf8Encode(_)
\* cipher.update(text, "utf8", ...): a surrogate pair is one character, a
\* surrogate on its own is written as U+FFFD.
utf8Encode(s) ==
    IF s = <<>> THEN <<>>
    ELSE IF Head(s) = "HI" /\ Len(s) >= 2 /\ s[2] = "LO"
    THEN <<"U+10000">> \o utf8Encode(SubSeq(s, 3, Len(s)))
    ELSE IF Head(s) \in {"HI", "LO"}
    THEN <<"U+FFFD">> \o utf8Encode(Tail(s))
    ELSE <<Head(s)>> \o utf8Encode(Tail(s))

RECURSIVE utf8Decode(_)
\* decipher.update(..., "utf8") + decipher.final("utf8").
utf8Decode(b) ==
    IF b = <<>> THEN <<>>
    ELSE IF Head(b) = "U+10000" THEN <<"HI", "LO">> \o utf8Decode(Tail(b))
    ELSE IF Head(b) = "U+FFFD" THEN <<"FFFD">> \o utf8Decode(Tail(b))
    ELSE <<Head(b)>> \o utf8Decode(Tail(b))

\* AES in counter mode: byte i is shifted by a keystream of key, IV and i.
Keystream(key, iv, i) == key + 3 * iv + i

StreamEncrypt(bytes, key, iv) ==
    [i \in DOMAIN bytes |->
        ByteAlphabet[((ByteIndex(bytes[i]) - 1 + Keystream(key, iv, i))
                        % Len(ByteAlphabet)) + 1]]

StreamDecrypt(ct, key, iv) ==
    [i \in DOMAIN ct |->
        ByteAlphabet[((ByteIndex(ct[i]) - 1 + Len(ByteAlphabet) * (key + 3 * iv + i)
                        - Keystream(key, iv, i)) % Len(ByteAlphabet)) + 1]]

\* The GCM tag of a ciphertext under a key, an IV and the additional data:
\* two tags are equal only when all four are.
GcmTag(key, aad, iv, ct) == <<key, aad, iv, ct>>

\* encrypt (20-58): salt + iv + tag + ciphertext, each at its fixed offset.
encryptString(text, salt, iv) ==
    LET key == deriveKey(salt)
        ct  == StreamEncrypt(utf8Encode(text), key, iv)
    IN  [salt |-> salt, iv |-> iv, tag |-> GcmTag(key, salt, iv, ct), ct |-> ct]

\* 'Failed to decrypt data' (92-95), 'Unexpected token' of JSON.parse.
ThrownText == [threw |-> TRUE, value |-> <<>>]

\* decrypt that never compares the tag.
decryptStringUnverified(blob) ==
    Returned(utf8Decode(StreamDecrypt(blob.ct, deriveKey(blob.salt), blob.iv)))

\* decrypt (63-96): decipher.final throws when the tag set with setAuthTag is
\* not the tag of the ciphertext under the derived key, the IV and the salt.
decryptString(blob) ==
    LET key == deriveKey(blob.salt)
    IN  IF blob.tag # GcmTag(key, blob.salt, blob.iv, blob.ct)
        THEN ThrownText
        ELSE Returned(utf8Decode(StreamDecrypt(blob.ct, key, blob.iv)))

\* JSON values: null, a string, and the object {"k": string}.
JsonValue(kind, s) == [kind |-> kind, s |-> s]

JsonValues ==
    {JsonValue("null", <<>>)} \cup
    {JsonValue(kind, s) : kind \in {"string", "object"}, s \in Texts}

\* The characters of a string literal written as they are.
jsonEscapeRaw(s) == s

RECURSIVE jsonEscape(_)
\* The characters of a string literal as JSON.stringify writes them: the
\* quote and a surrogate on its own escaped.
jsonEscape(s) ==
    IF s = <<>> THEN <<>>
    ELSE IF Head(s) = "HI" /\ Len(s) >= 2 /\ s[2] = "LO"
    THEN <<"HI", "LO">> \o jsonEscape(SubSeq(s, 3, Len(s)))
    ELSE IF Head(s) = "HI" THEN <<"esc_HI">> \o jsonEscape(Tail(s))
    ELSE IF Head(s) = "LO" THEN <<"esc_LO">> \o jsonEscape(Tail(s))
    ELSE IF Head(s) = "quote" THEN <<"esc_quote">> \o jsonEscape(Tail(s))
    ELSE <<Head(s)>> \o jsonEscape(Tail(s))

RECURSIVE jsonUnescape(_)
jsonUnescape(t) ==
    IF t = <<>> THEN <<>>
    ELSE (CASE Head(t) = "esc_HI" -> <<"HI">>
            [] Head(t) = "esc_LO" -> <<"LO">>
            [] Head(t) = "esc_quote" -> <<"quote">>
            [] OTHER -> <<Head(t)>>) \o jsonUnescape(Tail(t))

\* JSON.stringify(obj) (130).
jsonStringify(v) ==
    LET literal == <<"quote">> \o jsonEscape(v.s) \o <<"quote">>
    IN  CASE v.kind = "null" -> <<"null">>
          [] v.kind = "string" -> literal
          [] v.kind = "object" -> <<"lbrace_k">> \o literal \o <<"rbrace">>

\* A string literal that is the whole of t: the body, up to the first quote
\* after the opening one, or a SyntaxError.
jsonParseLiteral(t, kind) ==
    IF Len(t) < 2 \/ Head(t) # "quote" THEN [threw |-> TRUE,
                                             value |-> JsonValue("none", <<>>)]
    ELSE LET close == CHOOSE j \in 2..Len(t) :
                        /\ t[j] = "quote" \/ j = Len(t)
                        /\ \A i \in 2..(j - 1) : t[i] # "quote"
         IN  IF t[close] # "quote" \/ close # Len(t)
                \/ \E i \in 2..(close - 1) : t[i] \in {"null", "lbrace_k", "rbrace"}
             THEN [threw |-> TRUE, value |-> JsonValue("none", <<>>)]
             ELSE Returned(JsonValue(kind, jsonUnescape(SubSeq(t, 2, close - 1))))

\* JSON.parse(decryptedJson) (138).
jsonParse(t) ==
    IF t = <<"null">> THEN Returned(JsonValue("null", <<>>))
    ELSE IF t # <<>> /\ Head(t) = "lbrace_k" /\ t[Len(t)] = "rbrace"
    THEN jsonParseLiteral(SubSeq(t, 2, Len(t) - 1), "object")
    ELSE jsonParseLiteral(t, "string")

\* encryptObject (129-131).
encryptObject(obj, salt, iv) == encryptString(jsonStringify(obj), salt, iv)

\* decryptObject (136-139).
decryptObject(blob) ==
    LET d == decryptString(blob)
    IN  IF d.threw THEN [threw |-> TRUE, value |-> JsonValue("none", <<>>)]
        ELSE jsonParse(d.value)

\* encrypt or encryptObject called: the blob is with the caller.
EncryptCall(p) ==
    /\ BeginCall(p)
    /\ \E salt \in Salts, iv \in Salts :
         \/ \E text \in Texts :
              Goto(p, "enc", [LocIdle EXCEPT
                                !.op = "encrypt",
                                !.input = JsonValue("text", text),
                                !.blob = encryptString(text, salt, iv)])
         \/ \E obj \in JsonValues :
              Goto(p, "enc", [LocIdle EXCEPT
                                !.op = "encryptObject",
                                !.input = obj,
                                !.blob = encryptObject(obj, salt, iv)])
    /\ UNCHANGED <<now, db, issued, newestRT>>
    /\ UNCHANGED <<sessVars, authVars>>

\* The blobs that differ from blob in one byte: of the salt, of the IV, of
\* the tag or of the ciphertext.
Tampered(blob) ==
    {[blob EXCEPT !.salt = x] : x \in Salts \ {blob.salt}} \cup
    {[blob EXCEPT !.iv = x] : x \in Salts \ {blob.iv}} \cup
    {[blob EXCEPT !.tag[2] = x] : x \in Salts \ {blob.tag[2]}} \cup
    {[blob EXCEPT !.tag[3] = x] : x \in Salts \ {blob.tag[3]}} \cup
    ({[blob EXCEPT !.tag[4][i] = ByteAlphabet[j]] :
         i \in DOMAIN blob.ct, j \in DOMAIN ByteAlphabet} \ {blob}) \cup
    ({[blob EXCEPT !.ct[i] = ByteAlphabet[j]] :
         i \in DOMAIN blob.ct, j \in DOMAIN ByteAlphabet} \ {blob})

\* Someone who holds the stored blob changes one byte of it.
TamperBlob(p) ==
    /\ pc[p] = "enc"
    /\ ~loc[p].tampered
    /\ \E b \in Tampered(loc[p].blob) :
         Goto(p, "enc", [loc[p] EXCEPT !.blob = b, !.tampered = TRUE])
    /\ UNCHANGED <<now, db, issued, newestRT>>
    /\ UNCHANGED <<sessVars, authVars>>

\* decrypt, or decryptObject, of the blob.
DecryptCall(p) ==
    /\ pc[p] = "enc"
    /\ LET r == IF loc[p].op = "encrypt"
                THEN LET d == decryptString(loc[p].blob)
                     IN  [threw |-> d.threw, value |-> JsonValue("text", d.value)]
                ELSE decryptObject(loc[p].blob)
       IN  Goto(p, "done",
                [loc[p] EXCEPT !.out = r.value,
                               !.result = IF r.threw THEN "threw" ELSE "returned"])
    /\ UNCHANGED <<now, db, issued, newestRT>>
    /\ UNCHANGED <<sessVars, authVars>>

\* One value encrypted, its blob changed or not, and decrypted.
NextCrypto ==
    \E p \in {"p1"} :
        \/ EncryptCall(p)
        \/ TamperBlob(p)
        \/ DecryptCall(p)

SpecCrypto == InitAuth /\ [][NextCrypto]_vars

(***************************************************************************)
(* The state codec called directly.                                        *)
(***************************************************************************)
\* One call of OAuthStateManager.parseState: on a minted state, on a string
\* that does not decrypt or on incomplete data, with the secret set or not.
ParseStateCall(p) ==
    /\ BeginCall(p)
    /\ \E state \in CallbackStates, secret \in BOOLEAN :
         LET r == parseStateWithSecret(secret, state)
             l == [LocIdle EXCEPT !.op = "parseState", !.state = state,
                                  !.secret = secret, !.parsed = r.value]
         IN  Goto(p, "done",
                  [l EXCEPT !.result = IF r.threw THEN "threw" ELSE "returned"])
    /\ UNCHANGED <<now, db, issued, newestRT>>
    /\ UNCHANGED <<sessVars, authVars>>

\* States minted, parseState calls and the clock.
NextCodec ==
    \/ InitiateAuth
    \/ \E p \in Procs : ParseStateCall(p)
    \/ Tick

SpecCodec == InitAuth /\ [][NextCodec]_vars



(***************************************************************************)
(* Calls made one after the other on one row.                              *)
(***************************************************************************)
\* revokeCredentials called directly (content.ts 860-894): the call and its
\* findUnique.
RvcBegin(p) ==
    /\ BeginCall(p)
    /\ \E id \in CallIds :
         RvcFindStep(p, [LocIdle EXCEPT !.op = "revokeCredentials",
                                        !.accountId = id])
    /\ UNCHANGED <<now, db, issued, newestRT>>
    /\ UNCHANGED <<sessVars, authVars>>

RevokeAccessInTurn(p) == OneAtATime(p) /\ RevokeRead(p)

RevokeCredentialsInTurn(p) == OneAtATime(p) /\ RvcBegin(p)

\* Two revokes, one after the other, the clock and the sweep.
NextRevokeTwice ==
    \/ \E p \in Procs :
         \/ RevokeAccessInTurn(p)
         \/ RevokeCredentialsInTurn(p)
         \/ RevokeRemote(p)
         \/ RvcFind(p)
         \/ RvcWrite(p)
    \/ CleanupExpired
    \/ Tick

SpecRevokeTwice == InitAnyRow /\ [][NextRevokeTwice]_vars

\* One call of updateCredentials, revokeCredentials or revokeAccess, on a row
\* or on an id that has no row.
NextService ==
    \/ \E p \in {"p1"} :
         \/ UpdateBegin(p)
         \/ UpdGetCur(p)
         \/ UpdWrite(p)
         \/ RvcBegin(p)
         \/ RevokeRead(p)
         \/ RevokeRemote(p)
         \/ RvcFind(p)
         \/ RvcWrite(p)
    \/ Tick

SpecService == InitAnyRow /\ [][NextService]_vars

\* Every operation of CredentialService and of the providers that reaches
\* the records: one call of any of them, a revokeCredentials or a
\* cleanupExpiredCredentials of another request, and the clock.
NextRecords ==
    \/ \E p \in {"p1"} :
         \/ CredsGet(p)
         \/ UpdateBegin(p)
         \/ UpdGetCur(p)
         \/ UpdWrite(p)
         \/ RvcBegin(p)
         \/ RvcFind(p)
         \/ RvcWrite(p)
         \/ NeedsRefreshCall(p)
         \/ CleanupCall(p)
         \/ RefreshRead(p)
         \/ RefreshExchangeOk(p)
         \/ RefreshExchangeFail(p)
         \/ RefreshUpdFind(p)
         \/ RevokeRead(p)
         \/ RevokeRemote(p)
         \/ StoreFind(p)
         \/ StoreWrite(p)
    \/ \E p \in {"p2"} :
         \/ RvcBegin(p)
         \/ RvcWrite(p)
         \/ CleanupCall(p)
    \/ Tick

SpecRecords == InitAnyRow /\ [][NextRecords]_vars

(***************************************************************************)
(* storeCredentials followed by getCredentials, every field of             *)
(* SocialCredentials followed from the argument to the value returned:     *)
(* content.ts 668-722 and 756-774, encryption.ts 164-221.                  *)
(***************************************************************************)
\* scope?: string[] left out.
NoScope == <<>>

\* The credentials a caller hands to storeCredentials for a new account.
FullCredentials ==
    [accessToken : {1, 2},
     refreshToken : {Undefined, 1},
     expiresAt : {Undefined, now + 1},
     scope : {NoScope, <<"tweet.read">>},
     platformAccountId : {PlatformAccountId},
     displayName : Names,
     permissions : {<<>>, <<"tweet.write">>},
     platformMetadata : {"verified", "unverified"}]

\* encryptCredentials (164-193): the two tokens, and the rest of what it is
\* given (expiresAt and scope) as encryptedMetadata.
encryptCredentialsAll(c, s1, s2) ==
    [encryptedAccessToken  |-> encrypt(c.accessToken, s1, s1),
     encryptedRefreshToken |-> IF Truthy(c.refreshToken)
                               THEN encrypt(c.refreshToken, s2, s2)
                               ELSE NoBlob,
     encryptedMetadata     |-> [expiresAt |-> c.expiresAt, scope |-> c.scope]]

\* The data of create (707-721): encryptedData.encryptedMetadata is not
\* among the columns.
CreateData(triple, c, enc) ==
    [workspaceId |-> triple.workspaceId,
     platform |-> triple.platform,
     platformAccountId |-> c.platformAccountId,
     displayName |-> c.displayName,
     encryptedAccessToken |-> enc.encryptedAccessToken,
     encryptedRefreshToken |-> enc.encryptedRefreshToken,
     tokenExpiresAt |-> c.expiresAt,
     isActive |-> TRUE,
     permissions |-> c.permissions,
     platformMetadata |-> c.platformMetadata]

\* What getCredentials hands to decryptCredentials (756-759): the two token
\* columns.
BlobsOf(row) ==
    [encryptedAccessToken |-> row.encryptedAccessToken,
     encryptedRefreshToken |-> row.encryptedRefreshToken,
     encryptedMetadata |-> NoBlob]

\* decryptCredentials (198-221): the metadata is merged into the result only
\* when encryptedMetadata is there.
decryptCredentials(blobs) ==
    [accessToken  |-> decrypt(blobs.encryptedAccessToken),
     refreshToken |-> IF blobs.encryptedRefreshToken = NoBlob THEN Undefined
                      ELSE decrypt(blobs.encryptedRefreshToken),
     scope        |-> IF blobs.encryptedMetadata = NoBlob THEN NoScope
                      ELSE blobs.encryptedMetadata.scope]

\* The object getCredentials returns (765-774), or null.
getCredentialsAll(id) ==
    IF ~getCredentials(id).ok THEN <<>>
    ELSE LET decryptedData == decryptCredentials(BlobsOf(db[id]))
         IN  [accessToken |-> decryptedData.accessToken,
              refreshToken |-> decryptedData.refreshToken,
              expiresAt |-> db[id].tokenExpiresAt,
              scope |-> decryptedData.scope,
              platformAccountId |-> db[id].platformAccountId,
              displayName |-> db[id].displayName,
              permissions |-> db[id].permissions,
              platformMetadata |-> db[id].platformMetadata]

\* storeCredentials for an account that has no row: the create.
StoreAllCall(p) ==
    /\ BeginCall(p)
    /\ db = <<>>
    /\ \E c \in FullCredentials, s1 \in Salts, s2 \in Salts :
         /\ db' = <<CreateData(FirstTriple, c, encryptCredentialsAll(c, s1, s2))>>
         /\ Goto(p, "stored", [LocIdle EXCEPT !.op = "storeCredentials",
                                              !.accountId = 1,
                                              !.given = c])
    /\ UNCHANGED <<now, issued, newestRT>>
    /\ UNCHANGED <<sessVars, authVars>>

\* The getCredentials that follows, on the id storeCredentials returned.
GetAllCall(p) ==
    /\ pc[p] = "stored"
    /\ Goto(p, "done", [loc[p] EXCEPT !.got = getCredentialsAll(loc[p].accountId),
                                      !.result = "returned"])
    /\ UNCHANGED <<now, db, issued, newestRT>>
    /\ UNCHANGED <<sessVars, authVars>>

NextRoundTrip ==
    \/ \E p \in {"p1"} :
         \/ StoreAllCall(p)
         \/ GetAllCall(p)
    \/ Tick

SpecRoundTrip == InitAuth /\ [][NextRoundTrip]_vars

\* A row that is revoked or found revoked, while a refreshToken, an
\* updateCredentials or a getCredentials of another request is under way,
\* with the sweep and the clock; no storeCredentials runs.
NextRevoked ==
    \/ \E p \in {"p1"} :
         \/ RefreshRead(p)
         \/ RefreshExchangeOk(p)
         \/ RefreshExchangeFail(p)
         \/ RefreshUpdFind(p)
         \/ UpdateBegin(p)
         \/ UpdGetCur(p)
         \/ UpdWrite(p)
         \/ CredsGet(p)
    \/ \E p \in {"p2"} :
         \/ RvcBegin(p)
         \/ RvcWrite(p)
    \/ CleanupExpired
    \/ Tick

SpecRevoked == InitAnyRow /\ [][NextRevoked]_vars



(***************************************************************************)
(* Properties.                                                             *)
(***************************************************************************)
StoredAccessToken(row) == decrypt(row.encryptedAccessToken)

StoredRefreshToken(row) ==
    IF row.encryptedRefreshToken = NoBlob THEN Undefined
    ELSE decrypt(row.encryptedRefreshToken)

\* Both processes have completed operation op on row 1 with result "ok".
BothDone(op) ==
    \A p \in Procs :
        /\ pc[p] = "done"
        /\ loc[p].op = op
        /\ loc[p].accountId = 1
        /\ loc[p].result = "ok"

\* C1: when two concurrent refreshToken calls of the row's own provider have
\* both completed, each having presented a refresh token the platform still
\* held valid, the stored refresh token is the newest one the platform issued.
C1_RefreshRaceKeepsNewestToken ==
    ( /\ BothDone("refreshToken")
      /\ \A p \in Procs : loc[p].provider = db[1].platform /\ loc[p].remote = "ok" )
    => StoredRefreshToken(db[1]) = newestRT

\* A field that only one of two updates supplied holds that update's value;
\* one that both supplied holds one of the two values.
FieldKept(x, y, stored, supplied(_)) ==
    IF supplied(x) /\ supplied(y) THEN stored \in {x, y}
    ELSE IF supplied(x) THEN stored = x
    ELSE IF supplied(y) THEN stored = y
    ELSE TRUE

Defined(x) == x # Undefined

HasName(x) == x # NoName

\* C2: when two concurrent updateCredentials calls on a row have both
\* completed (each having read the current credentials it merged with), the
\* row holds every field either call supplied.
C2_ConcurrentUpdatesKeepAllFields ==
    ( /\ BothDone("updateCredentials")
      /\ \A p \in Procs : ~loc[p].readNull )
    => LET a == loc["p1"].updates
           b == loc["p2"].updates
       IN  /\ FieldKept(a.accessToken, b.accessToken,
                        StoredAccessToken(db[1]), Truthy)
           /\ FieldKept(a.refreshToken, b.refreshToken,
                        StoredRefreshToken(db[1]), Truthy)
           /\ FieldKept(a.expiresAt, b.expiresAt, db[1].tokenExpiresAt, Defined)
           /\ FieldKept(a.displayName, b.displayName, db[1].displayName, HasName)

\* C4: once revokeAccess has returned for an existing row, the row is
\* inactive.
C4_RevokeAccessDeactivates ==
    \A p \in Procs :
        ( /\ pc[p] = "done"
          /\ loc[p].op = "revokeAccess"
          /\ Exists(loc[p].accountId) )
        => ~db[loc[p].accountId].isActive

\* C5: a refreshToken call on an active row whose expiry has passed and which
\* holds a refresh token succeeds unless the platform refuses the exchange.
C5_ExpiredCanBeRefreshed ==
    \A p \in Procs :
        ( /\ pc[p] = "done"
          /\ loc[p].op = "refreshToken"
          /\ loc[p].startedExpired
          /\ loc[p].remote \notin {"notok", "threw"} )
        => loc[p].result = "ok"

\* C9: the write of an updateCredentials that supplies only a refresh token
\* leaves the stored access token decrypting to the same value, and the
\* write of one that supplies only an access token leaves the stored refresh
\* token decrypting to the same value.
C9_OmittedTokenPreserved ==
    [][ \A p \in Procs :
          (pc[p] = "upd_write" /\ pc'[p] = "done") =>
            LET u  == loc[p].updates
                id == loc[p].accountId
            IN  /\ (Truthy(u.refreshToken) /\ ~Truthy(u.accessToken))
                     => StoredAccessToken(db'[id]) = StoredAccessToken(db[id])
                /\ (Truthy(u.accessToken) /\ ~Truthy(u.refreshToken))
                     => StoredRefreshToken(db'[id]) = StoredRefreshToken(db[id])
      ]_vars

UniqueTriples ==
    \A i, j \in DOMAIN db : TripleOf(db[i]) = TripleOf(db[j]) => i = j

\* C10: no step leaves two rows with the same (workspaceId, platform,
\* platformAccountId), and a storeCredentials that succeeds leaves exactly one
\* row of its triple, carrying the display name it was given.
C10_UpsertKeepsOneRowPerTriple ==
    [][ /\ UniqueTriples'
        /\ \A p \in Procs :
             (pc[p] = "st_write" /\ pc'[p] = "done" /\ loc'[p].result = "ok") =>
               LET rows == {i \in DOMAIN db' : TripleOf(db'[i]) = loc[p].triple}
               IN  /\ Cardinality(rows) = 1
                   /\ \A i \in rows :
                        db'[i].displayName = loc[p].updates.displayName
      ]_vars

\* Two stores of one triple with different display names have both succeeded,
\* and one row of the triple is there.
C10_Witness ==
    /\ \A p \in Procs : pc[p] = "done" /\ loc[p].result = "ok"
    /\ loc["p1"].triple = loc["p2"].triple
    /\ loc["p1"].updates.displayName # loc["p2"].updates.displayName
    /\ Cardinality(RowsOf(loc["p1"].triple)) = 1


\* C8: of the results get has returned for a key since the last set on it, at
\* most one is not null, and that one is the data of that set.
C8_SessionEntryReadOnce ==
    \A k \in DOMAIN served :
        /\ Cardinality({i \in DOMAIN served[k] : served[k][i] # NoData}) <= 1
        /\ \A i \in DOMAIN served[k] :
             served[k][i] # NoData => served[k][i] = latest[k]

\* A set, a get that returned its data, and a further get that returned null.
C8_Witness ==
    \E k \in DOMAIN served : served[k] = <<latest[k], NoData>>


\* Process p is in a handleCallback that carries a state generateState made.
InCallback(p) == loc[p].op = "handleCallback" /\ loc[p].state.sealed

\* The callback of p has got past the checks of its state.
Accepted(p) ==
    /\ InCallback(p)
    /\ \/ pc[p] \in {"cb_exchange", "cb_account", "cb_pages", "cb_find", "st_write"}
       \/ pc[p] = "done" /\ loc[p].result # "BAD_REQUEST"

\* C3: a handleCallback of platform B that carries a state minted by another
\* platform A has failed with BAD_REQUEST by its first await, so it goes on to
\* no token exchange and no write of a record.
C3_CrossPlatformStateRejected ==
    \A p \in Procs :
        (InCallback(p) /\ loc[p].state.platform # loc[p].provider)
        => (pc[p] = "done" /\ loc[p].result = "BAD_REQUEST")

\* C6: once a handleCallback of the provider that minted a state has
\* succeeded with it, no other handleCallback of that provider carrying the
\* same state gets past the checks of the state.
C6_StateAcceptedOnce ==
    \A p, q \in Procs :
        ( /\ p # q
          /\ InCallback(p) /\ InCallback(q)
          /\ loc[p].state = loc[q].state
          /\ loc[p].provider = loc[p].state.platform
          /\ loc[q].provider = loc[p].provider
          /\ pc[p] = "done" /\ loc[p].result = "ok" )
        => ~Accepted(q)

\* C7: a handleCallback of X whose state parses as valid and whose code
\* verifier is not in the session store ends at once with BAD_REQUEST: the
\* token endpoint is not called and the records are left as they were.
C7_MissingVerifierRejected ==
    [][ \A p \in Procs :
          ( /\ pc[p] = "idle" /\ pc'[p] # "idle"
            /\ loc'[p].op = "handleCallback"
            /\ loc'[p].provider = "x"
            /\ ~StateRejected(parseState(loc'[p].state))
            /\ SessionGet(PkceKey(loc'[p].state)) = NoData )
          => /\ pc'[p] = "done"
             /\ loc'[p].result = "BAD_REQUEST"
             /\ loc'[p].remote = "none"
             /\ db' = db
             /\ issued' = issued
      ]_vars

\* A callback of X has been refused that carried the state X minted, the
\* verifier having gone to an earlier callback.
C7_Witness ==
    \E p \in Procs :
        /\ InCallback(p)
        /\ loc[p].provider = "x"
        /\ loc[p].state.platform = "x"
        /\ pc[p] = "done"
        /\ loc[p].result = "BAD_REQUEST"
        /\ loc[p].state \in minted
        /\ PkceKey(loc[p].state) \in DOMAIN served
        /\ served[PkceKey(loc[p].state)] = <<latest[PkceKey(loc[p].state)], NoData>>

\* C11: the write of a storeCredentials that found a row of its triple leaves
\* the row active with the display name and the access token supplied, and a
\* getCredentials that follows returns that access token.
C11_StoreReactivatesExisting ==
    [][ \A p \in Procs :
          ( /\ pc[p] = "st_write" /\ pc'[p] = "done"
            /\ loc'[p].result = "ok"
            /\ loc[p].existing # 0 )
          => \A id \in {loc[p].existing} :
               /\ db'[id].isActive
               /\ db'[id].displayName = loc[p].updates.displayName
               /\ StoredAccessToken(db'[id]) = loc[p].updates.accessToken
               /\ getCredentials(id)'.ok
               /\ getCredentials(id)'.accessToken = loc[p].updates.accessToken
      ]_vars

\* The row is there, it is active, and its expiry is absent or not before now.
Readable(id) ==
    /\ Exists(id)
    /\ db[id].isActive
    /\ (db[id].tokenExpiresAt = Undefined \/ ~(db[id].tokenExpiresAt < now))

\* C12: a getCredentials call returns null, and throws nothing, when the row
\* is missing, inactive or past its expiry, and returns the row's decrypted
\* tokens and expiry otherwise.
C12_GetCredentialsNullOrActive ==
    [][ \A p \in Procs :
          (pc[p] = "idle" /\ pc'[p] = "done" /\ loc'[p].op = "getCredentials")
          => \A id \in {loc'[p].accountId} :
               IF Readable(id)
               THEN /\ loc'[p].result = "ok"
                    /\ loc'[p].cur.ok
                    /\ loc'[p].cur.accessToken = StoredAccessToken(db[id])
                    /\ loc'[p].cur.refreshToken = StoredRefreshToken(db[id])
                    /\ loc'[p].cur.expiresAt = db[id].tokenExpiresAt
               ELSE /\ loc'[p].result = "null"
                    /\ loc'[p].cur = NullCreds
      ]_vars

\* A getCredentials has returned null for a row that is active and past its
\* expiry.
C12_Witness ==
    \E p \in Procs :
        /\ pc[p] = "done"
        /\ loc[p].op = "getCredentials"
        /\ loc[p].result = "null"
        /\ Exists(loc[p].accountId)
        /\ db[loc[p].accountId].isActive
        /\ db[loc[p].accountId].tokenExpiresAt # Undefined
        /\ db[loc[p].accountId].tokenExpiresAt < now

RevokeOps == {"revokeAccess", "revokeCredentials"}

\* Process q has completed the same revoke on the same row as p's call.
RevokedBefore(p, q) ==
    /\ q # p
    /\ pc[q] = "done"
    /\ loc[q].op = loc'[p].op
    /\ loc[q].accountId = loc'[p].accountId

\* C13: a revokeCredentials or a provider's revokeAccess on an existing row
\* ends without an error and with the row inactive, and one that follows a
\* completed revoke of the same kind on the row leaves the table as it was.
C13_RevokeIdempotent ==
    [][ \A p \in Procs :
          ( /\ pc[p] # "done" /\ pc'[p] = "done"
            /\ loc'[p].op \in RevokeOps
            /\ Exists(loc'[p].accountId) )
          => /\ loc'[p].result = "returned"
             /\ ~db'[loc'[p].accountId].isActive
             /\ (\E q \in Procs : RevokedBefore(p, q)) => db' = db
      ]_vars

\* The state does not decrypt, lacks a field, or is older than the lifetime of
\* a state.
BadState(state) ==
    \/ ~state.sealed
    \/ "" \in {state.workspaceId, state.platform, state.accountType}
    \/ state.nonce = 0
    \/ now - state.timestamp > STATE_EXPIRY_MS

\* C14: a handleCallback of any provider that carries a state which does not
\* decrypt, lacks a field or is too old ends at once with BAD_REQUEST: no
\* platform endpoint is called and the table and the session store are left
\* as they were.
C14_BadStateRejected ==
    [][ \A p \in Procs :
          ( /\ pc[p] = "idle" /\ pc'[p] # "idle"
            /\ loc'[p].op = "handleCallback"
            /\ BadState(loc'[p].state) )
          => /\ pc'[p] = "done"
             /\ loc'[p].result = "BAD_REQUEST"
             /\ loc'[p].remote = "none"
             /\ db' = db
             /\ issued' = issued
             /\ store' = store
      ]_vars

\* A callback of X has been refused for a state X minted that is too old, and
\* the verifier stored under it is still in the session store.
C14_Witness ==
    \E p \in Procs :
        /\ pc[p] = "done"
        /\ InCallback(p)
        /\ loc[p].provider = "x"
        /\ loc[p].state \in minted
        /\ now - loc[p].state.timestamp > STATE_EXPIRY_MS
        /\ loc[p].result = "BAD_REQUEST"
        /\ PkceKey(loc[p].state) \in DOMAIN store

\* C15: in a handleCallback the table changes only in the write of a call
\* whose token exchange and whose identity fetch have both succeeded; while
\* the call waits for either, and once either has failed, the table is left
\* as it was.
C15_StoreOnlyAfterExchangeAndIdentity ==
    [][ /\ db' # db =>
             \E p \in Procs :
                 /\ pc[p] = "st_write" /\ pc'[p] = "done"
                 /\ loc[p].op = "handleCallback"
                 /\ loc[p].remote = "ok"
                 /\ Truthy(loc[p].updates.accessToken)
                 /\ loc[p].updates.displayName # NoName
        /\ \A p \in Procs :
             ( /\ loc'[p].op = "handleCallback"
               /\ \/ pc'[p] \in {"cb_exchange", "cb_account"}
                  \/ loc'[p].remote = "notok" )
             => db' = db
      ]_vars

\* The token exchange of a callback has succeeded, its identity fetch has
\* failed, and the table holds no row.
C15_Witness ==
    \E p \in Procs :
        /\ pc[p] = "done"
        /\ loc[p].op = "handleCallback"
        /\ loc[p].remote = "notok"
        /\ Truthy(loc[p].updates.accessToken)
        /\ loc[p].result = "INTERNAL_SERVER_ERROR"
        /\ db = <<>>

\* The classification of a platform status that is not OK.
Classified(status) ==
    IF status = 401 THEN "UNAUTHORIZED"
    ELSE IF status = 403 THEN "FORBIDDEN"
    ELSE IF status = 429 THEN "TOO_MANY_REQUESTS"
    ELSE "INTERNAL_SERVER_ERROR"

\* C16: a handleCallback or refreshToken whose platform call was answered
\* with a status that is not OK has failed with the classification of that
\* status.
C16_StatusClassified ==
    \A p \in Procs :
        (pc[p] = "done" /\ loc[p].status # Undefined)
        => loc[p].result = Classified(loc[p].status)

\* C17: an updateCredentials, a revokeCredentials or a provider's revokeAccess
\* addressed to an id that has no row has failed with NOT_FOUND.
C17_UnknownIdNotFound ==
    \A p \in Procs :
        ( /\ pc[p] = "done"
          /\ loc[p].op \in {"updateCredentials", "revokeCredentials",
                            "revokeAccess"}
          /\ ~Exists(loc[p].accountId) )
        => loc[p].result = "NOT_FOUND"

\* C18: a refreshToken of any provider on a row that holds no refresh token
\* ends at its first step with NOT_FOUND: the token endpoint is not called
\* and the records are left as they were.
C18_NoRefreshTokenNotFound ==
    [][ \A p \in Procs :
          ( /\ pc[p] = "idle" /\ pc'[p] # "idle"
            /\ loc'[p].op = "refreshToken"
            /\ Exists(loc'[p].accountId)
            /\ StoredRefreshToken(db[loc'[p].accountId]) = Undefined )
          => /\ pc'[p] = "done"
             /\ loc'[p].result = "NOT_FOUND"
             /\ loc'[p].remote = "none"
             /\ db' = db
             /\ issued' = issued
             /\ newestRT' = newestRT
      ]_vars

\* A refreshToken has been refused on an active row that has not expired and
\* holds no refresh token.
C18_Witness ==
    \E p \in Procs :
        /\ pc[p] = "done"
        /\ loc[p].op = "refreshToken"
        /\ loc[p].result = "NOT_FOUND"
        /\ Exists(loc[p].accountId)
        /\ getCredentials(loc[p].accountId).ok
        /\ StoredRefreshToken(db[loc[p].accountId]) = Undefined

ExpiresWithinLookahead(id) ==
    /\ db[id].tokenExpiresAt # Undefined
    /\ db[id].tokenExpiresAt <= now + FIVE_MINUTES

\* C20 as stated: a needsRefresh whose lookup answered, called for a row,
\* returns true exactly when the row has an expiry no later than five minutes
\* from now.
C20_NeedsRefreshIffExpiryNear ==
    [][ \A p \in Procs :
          ( /\ pc[p] = "idle" /\ pc'[p] = "done"
            /\ loc'[p].op = "needsRefresh"
            /\ loc'[p].remote # "threw"
            /\ Exists(loc'[p].accountId) )
          => (loc'[p].result = "true"
                <=> ExpiresWithinLookahead(loc'[p].accountId))
      ]_vars

\* C20, amended: needsRefresh returns true exactly when its lookup threw, or
\* the row is there, is active and has an expiry no later than five minutes
\* from now; otherwise it returns false.
C20_NeedsRefreshActiveAndExpiryNear ==
    [][ \A p \in Procs :
          ( /\ pc[p] = "idle" /\ pc'[p] = "done"
            /\ loc'[p].op = "needsRefresh" )
          => /\ loc'[p].result \in {"true", "false"}
             /\ loc'[p].result = "true"
                  <=> \/ loc'[p].remote = "threw"
                      \/ /\ Exists(loc'[p].accountId)
                         /\ db[loc'[p].accountId].isActive
                         /\ ExpiresWithinLookahead(loc'[p].accountId)
      ]_vars

\* needsRefresh has returned true for an active row that expires exactly
\* five minutes from now.
C20_Witness ==
    \E p \in Procs :
        /\ pc[p] = "done"
        /\ loc[p].op = "needsRefresh"
        /\ loc[p].remote = "none"
        /\ loc[p].result = "true"
        /\ Exists(loc[p].accountId)
        /\ db[loc[p].accountId].isActive
        /\ db[loc[p].accountId].tokenExpiresAt = now + FIVE_MINUTES

\* The expiry of the row is earlier than now.
ExpiryPassed(row) == row.tokenExpiresAt # Undefined /\ row.tokenExpiresAt < now

C22_StateValidForTenMinutes ==
    [][ \A p \in Procs :
          ( /\ pc[p] = "idle" /\ pc'[p] = "done"
            /\ loc'[p].op = "parseState"
            /\ loc'[p].secret
            /\ loc'[p].state \in minted )
          => IF now - loc'[p].state.timestamp <= STATE_EXPIRY_MS
             THEN loc'[p].parsed.isValid
             ELSE /\ ~loc'[p].parsed.isValid
                  /\ loc'[p].parsed.error = "State has expired"
      ]_vars

\* One state has been parsed twice: found valid, and later found expired.
C22_Witness ==
    \E p, q \in Procs :
        /\ pc[p] = "done" /\ pc[q] = "done"
        /\ loc[p].op = "parseState" /\ loc[q].op = "parseState"
        /\ loc[p].state \in minted
        /\ loc[q].state = loc[p].state
        /\ loc[p].parsed.isValid
        /\ loc[q].parsed.error = "State has expired"

\* The input of a parseState call is one it must refuse.
BadParseInput(l) ==
    \/ ~l.secret
    \/ ~l.state.sealed
    \/ "" \in {l.state.workspaceId, l.state.platform, l.state.accountType}
    \/ now - l.state.timestamp > STATE_EXPIRY_MS

\* C23: a parseState call never throws, and on a string that does not
\* decrypt, on data with a field missing, on an expired state or without a
\* configured secret it returns isValid = false with a reason.
C23_ParseStateFailsClosed ==
    [][ \A p \in Procs :
          ( /\ pc[p] = "idle" /\ pc'[p] = "done"
            /\ loc'[p].op = "parseState" )
          => /\ loc'[p].result = "returned"
             /\ BadParseInput(loc'[p]) =>
                  /\ ~loc'[p].parsed.isValid
                  /\ loc'[p].parsed.error # ""
      ]_vars

\* parseState has returned a refusal for a minted state that is not expired,
\* the secret being unset.
C23_Witness ==
    \E p \in Procs :
        /\ pc[p] = "done"
        /\ loc[p].op = "parseState"
        /\ ~loc[p].secret
        /\ loc[p].state \in minted
        /\ now - loc[p].state.timestamp <= STATE_EXPIRY_MS
        /\ loc[p].result = "returned"
        /\ ~loc[p].parsed.isValid
        /\ loc[p].parsed.error = "Failed to parse state"

ForwardedOps ==
    {"initiateAuth", "handleCallback", "refreshToken", "revokeAccess",
     "getRequiredScopes"}

\* C25: a call of initiateAuth, handleCallback, refreshToken, revokeAccess or
\* getRequiredScopes of the service with a tag that is not registered ends at
\* once with the error of getProvider: no provider is entered and nothing of
\* the table, the session store, the minted states or the platform changes.
C25_UnsupportedPlatformRejected ==
    [][ \A p \in Procs :
          ( /\ pc[p] = "idle" /\ pc'[p] # "idle"
            /\ loc'[p].op \in ForwardedOps
            /\ loc'[p].tag \notin Platforms )
          => /\ pc'[p] = "done"
             /\ loc'[p].result = "BAD_REQUEST"
             /\ loc'[p].provider = ""
             /\ loc'[p].remote = "none"
             /\ <<db, issued, newestRT, store, cleanupTimer, minted>>'
                  = <<db, issued, newestRT, store, cleanupTimer, minted>>
      ]_vars

\* A call with the tag "instagram" has been refused and a call with a
\* registered tag has entered its provider.
C25_Witness ==
    \E p, q \in Procs :
        /\ pc[p] = "done"
        /\ loc[p].tag = "instagram"
        /\ loc[p].op = "refreshToken"
        /\ loc[p].result = "BAD_REQUEST"
        /\ loc[q].tag = "linkedin"
        /\ loc[q].provider = "linkedin"
        /\ loc[q].op = "refreshToken"

\* The string has no surrogate without its partner.
WellFormed(s) ==
    \A i \in DOMAIN s :
        /\ s[i] = "HI" => (i < Len(s) /\ s[i + 1] = "LO")
        /\ s[i] = "LO" => (i > 1 /\ s[i - 1] = "HI")

\* The string with U+FFFD in the place of every surrogate without a partner.
Scrubbed(s) ==
    [i \in DOMAIN s |->
        IF \/ s[i] = "HI" /\ ~(i < Len(s) /\ s[i + 1] = "LO")
           \/ s[i] = "LO" /\ ~(i > 1 /\ s[i - 1] = "HI")
        THEN "FFFD" ELSE s[i]]

\* A decrypt, or decryptObject, of a blob nobody has changed.
DecryptsIntact(p) ==
    /\ pc[p] = "enc" /\ pc'[p] = "done"
    /\ ~loc[p].tampered

\* C26 as stated: decrypt gives back every string that was encrypted, and
\* decryptObject every JSON value that was.
C26_RoundTripEveryString ==
    [][ \A p \in Procs :
          DecryptsIntact(p) =>
            /\ loc'[p].result = "returned"
            /\ loc'[p].out = loc[p].input
      ]_vars

\* C26, amended: decrypt gives back every string that has no surrogate
\* without its partner, the empty string among them, and any other string
\* with U+FFFD in the place of each such surrogate; decryptObject gives back
\* every JSON value.
C26_RoundTripWellFormed ==
    [][ \A p \in Procs :
          DecryptsIntact(p) =>
            /\ loc'[p].result = "returned"
            /\ loc[p].op = "encryptObject" => loc'[p].out = loc[p].input
            /\ loc[p].op = "encrypt" =>
                 /\ loc'[p].out.s = Scrubbed(loc[p].input.s)
                 /\ WellFormed(loc[p].input.s) => loc'[p].out = loc[p].input
      ]_vars

\* The empty string has come back from decrypt.
C26_Witness ==
    \E p \in Procs :
        /\ pc[p] = "done"
        /\ loc[p].op = "encrypt"
        /\ ~loc[p].tampered
        /\ loc[p].input.s = <<>>
        /\ loc[p].blob.ct = <<>>
        /\ loc[p].result = "returned"
        /\ loc[p].out = loc[p].input

\* C27: decrypt and decryptObject of a blob of which one byte of the salt,
\* the IV, the tag or the ciphertext was changed throw; what decrypt returns
\* is never anything but the text whose bytes were encrypted.
C27_TamperDetected ==
    [][ \A p \in Procs :
          (pc[p] = "enc" /\ pc'[p] = "done") =>
            /\ loc[p].tampered => loc'[p].result = "threw"
            /\ (loc'[p].result = "returned" /\ loc[p].op = "encrypt") =>
                 loc'[p].out.s = utf8Decode(utf8Encode(loc[p].input.s))
            /\ (loc'[p].result = "returned" /\ loc[p].op = "encryptObject") =>
                 loc'[p].out = loc[p].input
      ]_vars

\* decrypt has thrown on a blob whose ciphertext was changed in one byte.
C27_Witness ==
    \E p \in Procs :
        /\ pc[p] = "done"
        /\ loc[p].op = "encrypt"
        /\ loc[p].tampered
        /\ loc[p].blob.ct # loc[p].blob.tag[4]
        /\ loc[p].blob.salt = loc[p].blob.tag[2]
        /\ loc[p].blob.iv = loc[p].blob.tag[3]
        /\ loc[p].result = "threw"

\* C28: whenever the session store holds an entry a cleanup timer is
\* scheduled; a step that puts an entry starts a timer only when none is
\* running and otherwise leaves the running one alone; and a cleanup pass
\* clears the timer exactly when it leaves the store empty.
C28_TimerRunsWhileStoreHolds ==
    [][ /\ DOMAIN store' # {} => cleanupTimer' # NoTimer
        /\ latest' # latest =>
             cleanupTimer' = IF cleanupTimer = NoTimer
                             THEN now + CLEANUP_INTERVAL ELSE cleanupTimer
        /\ (cleanupTimer # NoTimer /\ cleanupTimer' # cleanupTimer) =>
             /\ now >= cleanupTimer
             /\ cleanupTimer' = NoTimer <=> DOMAIN store' = {}
             /\ cleanupTimer' # NoTimer =>
                  cleanupTimer' = cleanupTimer + CLEANUP_INTERVAL
      ]_vars

\* The store holds the entry of a second set with a timer scheduled anew,
\* the entry of the first set having gone without a get.
C28_Witness ==
    /\ DOMAIN latest = Keys
    /\ \E k \in Keys :
         /\ DOMAIN store = {k}
         /\ \A j \in Keys \ {k} : served[j] = <<>> /\ latest[j] < latest[k]
    /\ cleanupTimer = now + CLEANUP_INTERVAL
    /\ now > CLEANUP_INTERVAL

\* C29: with the clock advancing and the cleanup interval firing, every
\* entry set in the session store leaves it, read or not: a cleanup pass
\* leaves no entry whose expiry has passed, an entry of a set does not stay
\* for ever, and from some point on the store is empty.
C29_EveryEntryRemoved ==
    /\ [][ (cleanupTimer # NoTimer /\ cleanupTimer' # cleanupTimer) =>
             \A k \in DOMAIN store :
               now > store[k].expiresAt => k \notin DOMAIN store' ]_vars
    /\ \A k \in Keys : \A n \in 1..(MaxSets + 1) :
         (k \in DOMAIN store /\ store[k].data = n)
           ~> ~(k \in DOMAIN store /\ store[k].data = n)
    /\ <>[](DOMAIN store = {} /\ cleanupTimer = NoTimer)

\* Both keys were set and never read, the store is empty and the timer is
\* cleared.
C29_Witness ==
    /\ DOMAIN latest = Keys
    /\ \A k \in Keys : served[k] = <<>>
    /\ DOMAIN store = {}
    /\ cleanupTimer = NoTimer

\* The columns of a record that say which record it is.
SameRecord(old, new) == TripleOf(new) = TripleOf(old)

\* The step is the write of revokeCredentials (also reached from
\* revokeAccess) or the updateMany of cleanupExpiredCredentials.
RevokeOrSweepStep ==
    \E p \in Procs :
      \/ pc[p] = "rvc_write" /\ pc'[p] # pc[p]
      \/ pc[p] = "idle" /\ loc'[p].op = "cleanupExpiredCredentials"

C31_RevokedStaysInactive ==
    [][ \A id \in DOMAIN db :
          ~db[id].isActive =>
            /\ getCredentials(id) = NullCreds
            /\ ~db'[id].isActive
            /\ \A p \in Procs :
                 ( /\ pc[p] = "idle"
                   /\ loc'[p].op = "getCredentials"
                   /\ loc'[p].accountId = id ) => loc'[p].result = "null"
      ]_vars

\* A refreshToken read the credentials of the active record, the record was
\* revoked, and the refresh then wrote its tokens: its getCredentials inside
\* updateCredentials saw null, and the record is inactive.
C31_Witness ==
    /\ now = 0
    /\ ~db[1].isActive
    /\ pc["p1"] = "done"
    /\ loc["p1"].op = "refreshToken"
    /\ loc["p1"].result = "ok"
    /\ loc["p1"].readNull
    /\ pc["p2"] = "done"
    /\ loc["p2"].op = "revokeCredentials"

\* The record id is absent or inactive before the step and active after it.
Activated(id) ==
    /\ id \in DOMAIN db'
    /\ db'[id].isActive
    /\ id \in DOMAIN db => ~db[id].isActive

\* C32: a record becomes active (created or reactivated) only in the write
\* of a handleCallback whose state an initiateAuth minted, and under the
\* workspace of that state; a handleCallback goes past its state check only
\* with a minted state no older than STATE_EXPIRY_MS; and every active
\* record is on a workspace a state was minted for.
C32_ActiveOnlyThroughCallback ==
    [][ /\ \A id \in DOMAIN db' :
             Activated(id) =>
               \E p \in Procs :
                 /\ pc[p] = "st_write"
                 /\ pc'[p] = "done"
                 /\ loc[p].op = "handleCallback"
                 /\ loc[p].state \in minted
                 /\ db'[id].workspaceId = loc[p].state.workspaceId
        /\ \A p \in Procs :
             (pc[p] = "idle" /\ pc'[p] = "cb_exchange") =>
               /\ loc'[p].state \in minted
               /\ now - loc'[p].state.timestamp <= STATE_EXPIRY_MS
        /\ \A id \in DOMAIN db' :
             db'[id].isActive =>
               \E s \in minted' : s.workspaceId = db'[id].workspaceId
      ]_vars

\* A handleCallback has stored an active record under the second workspace,
\* beside the record of the first that was revoked earlier.
C32_Witness ==
    /\ Len(db) = 2
    /\ db[2].isActive
    /\ db[2].workspaceId = "ws2"
    /\ pc["p1"] = "done"
    /\ loc["p1"].op = "handleCallback"
    /\ loc["p1"].result = "ok"

\* C33: a refreshToken or a revokeAccess of the service that goes on to the
\* token or revoke endpoint does so in the provider of the platform the
\* record of the account id is stored under, whatever tag the caller passed.
C33_ActsThroughRecordPlatform ==
    [][ \A p \in Procs :
          ( /\ pc[p] = "idle"
            /\ pc'[p] \in {"rt_exchange", "rv_remote"}
            /\ loc'[p].op \in {"refreshToken", "revokeAccess"} )
          => loc'[p].provider = db[loc'[p].accountId].platform
      ]_vars

\* Process p begins an X handleCallback with the state of an earlier X
\* handleCallback that took the verifier and then failed at the token
\* exchange or at the identity fetch.
RetryAfterFailure(p) ==
    /\ pc[p] = "idle"
    /\ pc'[p] # "idle"
    /\ loc'[p].op = "handleCallback"
    /\ loc'[p].provider = "x"
    /\ \E q \in Procs \ {p} :
         /\ pc[q] = "done"
         /\ loc[q].op = "handleCallback"
         /\ loc[q].provider = "x"
         /\ loc[q].state = loc'[p].state
         /\ loc[q].remote = "notok"

\* An X handleCallback at its token exchange or beyond holds the verifier
\* alone: the session store has no entry under its state.
VerifierConsumedFirst ==
    \A p \in Procs :
      (loc[p].op = "handleCallback" /\ loc[p].provider = "x"
         /\ pc[p] \notin {"idle", "done"})
        => PkceKey(loc[p].state) \notin DOMAIN store

\* C34 as stated: the verifier is consumed before the exchange, and every
\* retry after a failed exchange or identity fetch ends at once with
\* BAD_REQUEST 'PKCE code verifier not found' and stores nothing.
C34_RetryFailsPkceNotFound ==
    [][ /\ VerifierConsumedFirst'
        /\ \A p \in Procs :
             RetryAfterFailure(p) =>
               /\ pc'[p] = "done"
               /\ loc'[p].result = "BAD_REQUEST"
               /\ loc'[p].message = "PKCE code verifier not found"
               /\ db' = db
      ]_vars

\* C34 amended: the verifier is consumed before the exchange, and every
\* retry after a failed exchange or identity fetch ends at once with
\* BAD_REQUEST, calls no endpoint and stores nothing; its message is 'PKCE
\* code verifier not found' while the state is within its validity window
\* and 'Invalid or expired OAuth state' once it is older.
C34_RetryFailsBadRequest ==
    [][ /\ VerifierConsumedFirst'
        /\ \A p \in Procs :
             RetryAfterFailure(p) =>
               /\ pc'[p] = "done"
               /\ loc'[p].result = "BAD_REQUEST"
               /\ loc'[p].remote = "none"
               /\ loc'[p].message =
                    IF now - loc'[p].state.timestamp > STATE_EXPIRY_MS
                    THEN "Invalid or expired OAuth state"
                    ELSE "PKCE code verifier not found"
               /\ db' = db
               /\ issued' = issued
      ]_vars

\* A first X callback failed after taking the verifier and the retry with
\* its state, made within the validity window, was refused for the verifier.
C34_Witness ==
    \E p, q \in Procs :
        /\ p # q
        /\ pc[p] = "done" /\ pc[q] = "done"
        /\ loc[q].op = "handleCallback" /\ loc[q].provider = "x"
        /\ loc[q].remote = "notok"
        /\ loc[p].op = "handleCallback" /\ loc[p].provider = "x"
        /\ loc[p].state = loc[q].state
        /\ loc[p].result = "BAD_REQUEST"
        /\ loc[p].message = "PKCE code verifier not found"
        /\ db = <<>>

\* C35: a refreshToken whose token endpoint answers non-OK or whose fetch
\* throws ends with an error, and neither its read of the credentials nor
\* its failure changes the record: the encrypted tokens, the expiry and
\* isActive are what they were.
C35_FailedRefreshLeavesRecord ==
    [][ \A p \in Procs :
          /\ (pc[p] = "idle" /\ loc'[p].op = "refreshToken") => db' = db
          /\ (pc[p] = "rt_exchange" /\ pc'[p] = "done") =>
               /\ loc'[p].remote \in {"notok", "threw"}
               /\ loc'[p].result = "INTERNAL_SERVER_ERROR"
               /\ \A id \in {loc[p].accountId} :
                    /\ db'[id].encryptedAccessToken = db[id].encryptedAccessToken
                    /\ db'[id].encryptedRefreshToken = db[id].encryptedRefreshToken
                    /\ db'[id].tokenExpiresAt = db[id].tokenExpiresAt
                    /\ db'[id].isActive = db[id].isActive
               /\ db' = db
      ]_vars

\* The token endpoint has refused a refresh and the record is the active
\* one the call read.
C35_Witness ==
    \E p \in Procs :
        /\ pc[p] = "done"
        /\ loc[p].op = "refreshToken"
        /\ loc[p].remote = "notok"
        /\ loc[p].result = "INTERNAL_SERVER_ERROR"
        /\ db[loc[p].accountId].isActive
        /\ StoredRefreshToken(db[loc[p].accountId]) = 1

\* C36: a getCredentials that follows a storeCredentials whose expiry is
\* absent or has not passed returns the access token, refresh token, expiry,
\* scopes, platform account id, display name, permissions and platform
\* metadata that were stored.
C36_StoreGetRoundTrip ==
    \A p \in Procs :
        ( /\ pc[p] = "done"
          /\ loc[p].op = "storeCredentials"
          /\ loc[p].given # <<>>
          /\ (loc[p].given.expiresAt = Undefined \/ loc[p].given.expiresAt >= now) )
        => loc[p].got = loc[p].given

\* C37: an initiateAuth of X that returns puts exactly one entry in the
\* session store, under the key of the state it returns, and changes no
\* other entry; the entry holds a verifier whose challenge is the
\* code_challenge of the URL it returns; the URL names the method S256 and
\* no parameter of it is the verifier; the entry expires DEFAULT_TTL_MS
\* (10 minutes) after the call.
C37_XInitiateStoresVerifier ==
    [][ \A p \in Procs :
          ( /\ pc[p] = "idle"
            /\ loc'[p].op = "initiateAuth"
            /\ loc'[p].provider = "x"
            /\ loc'[p].result = "ok" )
          => \A k \in {PkceKey(loc'[p].state)} :
               /\ k \notin DOMAIN store
               /\ DOMAIN store' = DOMAIN store \cup {k}
               /\ \A j \in DOMAIN store : store'[j] = store[j]
               /\ store'[k].expiresAt = now + DEFAULT_TTL_MS
               /\ SearchParam(loc'[p].url, "code_challenge")
                    = generateCodeChallenge(generateCodeVerifier(store'[k].data))
               /\ SearchParam(loc'[p].url, "code_challenge_method")
                    = <<"S", "2", "5", "6">>
               /\ \A i \in DOMAIN loc'[p].url.query :
                    formDecode(loc'[p].url.query[i][2])
                      # generateCodeVerifier(store'[k].data)
      ]_vars

\* An initiateAuth of X has returned its URL and the entry of its state is
\* in the session store.
C37_Witness ==
    \E p \in Procs :
        /\ pc[p] = "done"
        /\ loc[p].op = "initiateAuth"
        /\ loc[p].provider = "x"
        /\ loc[p].result = "ok"
        /\ PkceKey(loc[p].state) \in DOMAIN store
        /\ Len(loc[p].url.query) = 6

(***************************************************************************)
(* checkCredentialRateLimit, part_006 107-128.  In the specification of    *)
(* the limiter one unit of now is half a minute.                           *)
(***************************************************************************)
\* windowMs (112): one minute.
windowMs == 2

\* maxOperations (113).
maxOperations == 10

\* The callers and what they do: two operations of one user, and one of
\* them by another user.
RateCalls == {<<"u1", "READ">>, <<"u1", "REFRESH">>, <<"u2", "READ">>}

\* `${userId}:${operation}` (110).
RateKey(userId, operation) == <<userId, ":", operation>>

\* The test of line 122 with > for >=.
LimitReachedLate(current) == current.count > maxOperations

\* current.count >= maxOperations (122).
LimitReached(current) == current.count >= maxOperations

\* The function (109-128) on the map as it is at time t: what it returns
\* and the map it leaves.
checkCredentialRateLimit(limits, userId, operation, t) ==
    LET key == RateKey(userId, operation)
    IN  IF key \notin DOMAIN limits \/ t > limits[key].resetTime
        THEN [ret |-> TRUE,
              limits |-> MapPut(limits, key,
                                [count |-> 1, resetTime |-> t + windowMs])]
        ELSE IF LimitReached(limits[key])
        THEN [ret |-> FALSE, limits |-> limits]
        ELSE [ret |-> TRUE,
              limits |-> [limits EXCEPT ![key].count = @ + 1]]

\* One call of checkCredentialRateLimit; the function is synchronous, so
\* the caller is back where it was, with what the call returned.
RateLimitCall(p) ==
    /\ pc[p] = "idle"
    /\ \E c \in RateCalls :
         LET userId    == c[1]
             operation == c[2]
             r == checkCredentialRateLimit(credentialOperationLimits,
                                           userId, operation, now)
         IN  /\ credentialOperationLimits' = r.limits
             /\ loc' = [loc EXCEPT ![p] =
                          [LocIdle EXCEPT
                             !.op = "checkCredentialRateLimit",
                             !.given = RateKey(userId, operation),
                             !.result = IF r.ret THEN "true" ELSE "false"]]
    /\ UNCHANGED <<now, db, pc, issued, newestRT, sessVars, minted>>

\* The limiter alone: calls of one caller after another, and the clock.
NextRateLimit ==
    \/ \E p \in {"p1"} : RateLimitCall(p)
    \/ Tick

SpecRateLimit == InitAuth /\ [][NextRateLimit]_vars

\* The step is a call of checkCredentialRateLimit on key k that returned r.
RateCallOn(k, r) ==
    /\ now' = now
    /\ loc'["p1"].given = k
    /\ loc'["p1"].result = r

\* Key k is inside its window: it has an entry whose resetTime is not past.
InWindow(k) ==
    /\ k \in DOMAIN credentialOperationLimits
    /\ now <= credentialOperationLimits[k].resetTime

\* C38: the count of a key is never above maxOperations (10) and counts the
\* calls allowed in the window, which ends windowMs (60 seconds) after the
\* call that opened it; a call on a key that has 10 in a window not yet
\* past returns false and changes nothing; a call on a key with no entry or
\* past its resetTime returns true and opens a window with count 1; any
\* other call returns true and adds one; and a call changes no other key's
\* entry.
C38_RateLimitWindow ==
    [][ /\ \A k \in DOMAIN credentialOperationLimits' :
             /\ credentialOperationLimits'[k].count \in 1..maxOperations
        /\ \A k \in DOMAIN credentialOperationLimits :
             k \in DOMAIN credentialOperationLimits'
        /\ now' = now =>
             \A k \in {loc'["p1"].given} :
               /\ \A j \in DOMAIN credentialOperationLimits' \ {k} :
                    /\ j \in DOMAIN credentialOperationLimits
                    /\ credentialOperationLimits'[j]
                         = credentialOperationLimits[j]
               /\ IF ~InWindow(k)
                  THEN /\ RateCallOn(k, "true")
                       /\ credentialOperationLimits'[k]
                            = [count |-> 1, resetTime |-> now + windowMs]
                  ELSE IF credentialOperationLimits[k].count >= 10
                  THEN /\ RateCallOn(k, "false")
                       /\ credentialOperationLimits'
                            = credentialOperationLimits
                  ELSE /\ RateCallOn(k, "true")
                       /\ credentialOperationLimits'[k]
                            = [credentialOperationLimits[k]
                                 EXCEPT !.count = @ + 1]
        /\ now' # now =>
             credentialOperationLimits' = credentialOperationLimits
      ]_vars

\* A key has had its eleventh call refused inside a window that opened
\* after its first window was past, while another key is at its first call.
C38_Witness ==
    /\ loc["p1"].op = "checkCredentialRateLimit"
    /\ loc["p1"].result = "false"
    /\ \E k \in DOMAIN credentialOperationLimits :
         /\ loc["p1"].given = k
         /\ credentialOperationLimits[k].count = maxOperations
         /\ credentialOperationLimits[k].resetTime > windowMs
         /\ now = credentialOperationLimits[k].resetTime
    /\ \E j \in DOMAIN credentialOperationLimits :
         credentialOperationLimits[j].count = 1

(***************************************************************************)
(* OAuthStateManager.validateCSRFToken, oauth-state-manager.ts 120-130.    *)
(***************************************************************************)
\* The bytes UTF-8 writes for one character.
ByteLen(c) ==
    CASE c = "U+10000" -> 4
      [] c = "U+FFFD"  -> 3
      [] OTHER         -> 1

RECURSIVE byteLength(_)
\* The byteLength of Buffer.from(s, 'utf8'), b being utf8Encode(s).
byteLength(b) ==
    IF b = <<>> THEN 0 ELSE ByteLen(Head(b)) + byteLength(Tail(b))

\* crypto.timingSafeEqual(a, b): a RangeError for buffers of different
\* byte lengths, else whether the bytes are the same.
timingSafeEqual(a, b) ==
    IF byteLength(a) # byteLength(b) THEN "threw"
    ELSE IF a = b THEN "true"
    ELSE "false"

\* validateCSRFToken (120-130): false for an empty token, else the
\* comparison of the two UTF-8 buffers.
validateCSRFToken(token, expectedToken) ==
    IF token = <<>> \/ expectedToken = <<>> THEN "false"
    ELSE timingSafeEqual(utf8Encode(token), utf8Encode(expectedToken))

\* One call of validateCSRFToken with any two strings.
ValidateCSRFTokenCall(p) ==
    /\ pc[p] = "idle"
    /\ \E token \in Texts, expectedToken \in Texts :
         Goto(p, "done",
              [loc[p] EXCEPT
                 !.op = "validateCSRFToken",
                 !.given = <<token, expectedToken>>,
                 !.result = validateCSRFToken(token, expectedToken)])
    /\ UNCHANGED <<now, db, issued, newestRT, sessVars, authVars>>

NextCsrf ==
    \/ \E p \in {"p1"} : ValidateCSRFTokenCall(p)
    \/ Tick

SpecCsrf == InitAuth /\ [][NextCsrf]_vars

\* C39: validateCSRFToken returns for every two strings and never throws;
\* it returns true exactly when both are non-empty and equal, and false
\* otherwise, also when they differ in length.
C39_ValidateCSRFTokenTotal ==
    \A p \in Procs :
        (pc[p] = "done" /\ loc[p].op = "validateCSRFToken") =>
            /\ loc[p].result \in {"true", "false"}
            /\ loc[p].result = "true" <=>
                 /\ loc[p].given[1] # <<>>
                 /\ loc[p].given[2] # <<>>
                 /\ loc[p].given[1] = loc[p].given[2]

====
